---- MODULE Spec2Model ----
(***************************************************************************)
(* Identity resolution, price bookkeeping, composite scoring and the       *)
(* recommendation cache of ds_product_analyzer.  Strings are sequences of  *)
(* one-character strings, so that the text transforms are computed         *)
(* character by character.                                                 *)
(***************************************************************************)
EXTENDS Integers, Sequences, FiniteSets, TLC

VARIABLES
    nPc,       \* normalizer harness: "raw", "once" or "twice"
    nRaw,      \* normalizer harness: the raw input string
    nOnce,     \* normalize_product_name(nRaw) once nPc # "raw"
    nTwice,    \* normalize_product_name(nOnce) once nPc = "twice"
    serial,    \* TRUE when jobs are run one after the other
    collected, \* number of signals handed to store_signals so far
    products,  \* committed rows of table products
    aliases,   \* committed rows of table product_aliases, in insertion order
    rawSignals,\* committed rows of table raw_signals, in insertion order
    nextId,    \* next autoincrement id of table products
    sess,      \* one AsyncSession per collection job
    priceHistory, \* committed rows of table price_history, in insertion order
    enr,       \* the run_price_enrichment job
    log,       \* the first find_or_create_product calls, in completion order
    last,      \* the most recent find_or_create_product call
    raised,    \* TRUE once a find_or_create_product call has raised
    now,       \* the clock, in ticks of DaysPerTick days
    trendScores, \* committed rows of table trend_scores, in insertion order
    sc,        \* the AsyncSession of run_scoring
    mono,      \* time.monotonic(), in hours
    cache,     \* recommender._cache: top_n -> (timestamp, recommendations)
    rc,        \* the calls of generate_dropshipping_recommendations under way
    ret,       \* the call of generate_dropshipping_recommendations that ended last
    hShape,    \* trend-shape harness: the product _compute_trend_shape was
               \* called for and the value it returned
    hFit,      \* price-fit harness: the value _compute_price_fit returned
    ex,        \* the call of extract_and_filter
    hDs,       \* suitability harness: the value _compute_ds_score returned
    pl         \* the call of run_full_pipeline

normVars == <<nPc, nRaw, nOnce, nTwice>>
storeVars == <<serial, collected, products, aliases, rawSignals, nextId, sess,
               priceHistory, enr, log, last, raised>>
scoreVars == <<now, trendScores, sc>>
vars == <<nPc, nRaw, nOnce, nTwice,
          serial, collected, products, aliases, rawSignals, nextId, sess,
          priceHistory, enr, log, last, raised, now, trendScores, sc,
          mono, cache, rc, ret, hShape, hFit, ex, hDs, pl>>
recVars == <<mono, cache, rc, ret>>
auxVars == <<hFit, ex, hDs, pl>>

\* SQL NULL in a numeric column (prices are positive)
NULL == -1

----------------------------------------------------------------------------
(* Characters                                                              *)

UpperChars == <<"A","B","C","D","E","F","G","H","I","J","K","L","M",
                "N","O","P","Q","R","S","T","U","V","W","X","Y","Z">>
LowerChars == <<"a","b","c","d","e","f","g","h","i","j","k","l","m",
                "n","o","p","q","r","s","t","u","v","w","x","y","z">>
DigitChars == <<"0","1","2","3","4","5","6","7","8","9">>

\* code-point order of the characters that survive thefuzz's full_process
CharOrder == DigitChars \o <<"_">> \o LowerChars

Range(f) == {f[i] : i \in DOMAIN f}

IsSpace(c) == c \in {" ", "\t", "\n"}
IsWordChar(c) == c \in Range(UpperChars) \cup Range(LowerChars)
                       \cup Range(DigitChars) \cup {"_"}

\* str.lower() on one character
LowerChar(c) ==
    IF c \in Range(UpperChars)
    THEN LowerChars[CHOOSE i \in DOMAIN UpperChars : UpperChars[i] = c]
    ELSE c

Lower(s) == [i \in DOMAIN s |-> LowerChar(s[i])]

\* concatenation of a sequence of strings
RECURSIVE Flatten(_)
Flatten(ss) == IF ss = <<>> THEN <<>> ELSE Head(ss) \o Flatten(Tail(ss))

\* str.strip(): drop leading and trailing whitespace
RECURSIVE LStrip(_)
LStrip(s) == IF s # <<>> /\ IsSpace(Head(s)) THEN LStrip(Tail(s)) ELSE s
RECURSIVE RStrip(_)
RStrip(s) == IF s # <<>> /\ IsSpace(s[Len(s)])
             THEN RStrip(SubSeq(s, 1, Len(s) - 1)) ELSE s
Strip(s) == RStrip(LStrip(s))

\* str.split(): maximal runs of non-whitespace characters
RECURSIVE SplitAcc(_, _, _)
SplitAcc(s, cur, acc) ==
    IF s = <<>> THEN (IF cur = <<>> THEN acc ELSE Append(acc, cur))
    ELSE IF IsSpace(Head(s))
         THEN SplitAcc(Tail(s), <<>>, IF cur = <<>> THEN acc ELSE Append(acc, cur))
         ELSE SplitAcc(Tail(s), Append(cur, Head(s)), acc)
Split(s) == SplitAcc(s, <<>>, <<>>)

\* " ".join(tokens)
RECURSIVE Join(_)
Join(ts) == IF ts = <<>> THEN <<>>
            ELSE IF Len(ts) = 1 THEN ts[1]
            ELSE ts[1] \o <<" ">> \o Join(Tail(ts))

----------------------------------------------------------------------------
(* normalizer.py                                                           *)

PLATFORM_STOPWORDS ==
    { <<"a","m","a","z","o","n">>, <<"w","a","l","m","a","r","t">>,
      <<"e","b","a","y">>, <<"t","i","k","t","o","k">>,
      <<"r","e","d","d","i","t">>,
      <<"a","l","i","e","x","p","r","e","s","s">>, <<"e","t","s","y">> }

\* re.sub(r"[^\w\s-]", "", name)
StripSpecial(s) == SelectSeq(s, LAMBDA c : IsWordChar(c) \/ IsSpace(c) \/ c = "-")

\* re.sub(r"\s+", " ", name)
RECURSIVE CollapseWs(_)
CollapseWs(s) ==
    IF s = <<>> THEN <<>>
    ELSE IF IsSpace(Head(s))
         THEN <<" ">> \o CollapseWs(LStrip(s))
         ELSE <<Head(s)>> \o CollapseWs(Tail(s))

\* the prefix of s matched by \s+ starting at position k, as a length (0: no match)
RECURSIVE WsRun(_, _)
WsRun(s, k) == IF k <= Len(s) /\ IsSpace(s[k]) THEN 1 + WsRun(s, k + 1) ELSE 0

StartsWith(s, w) == Len(s) >= Len(w) /\ SubSeq(s, 1, Len(w)) = w

Articles == << <<"t","h","e">>, <<"a">>, <<"a","n">> >>

\* re.sub(r"^(the|a|an)\s+", "", name): at most one match, anchored at the start
StripArticle(s) ==
    LET hits == {i \in DOMAIN Articles :
                   StartsWith(s, Articles[i]) /\ WsRun(s, Len(Articles[i]) + 1) > 0}
    IN IF hits = {} THEN s
       ELSE LET i == CHOOSE h \in hits : \A g \in hits : h <= g
                n == Len(Articles[i]) + WsRun(s, Len(Articles[i]) + 1)
            IN SubSeq(s, n + 1, Len(s))

DropStopwords(s) == Join(SelectSeq(Split(s), LAMBDA t : t \notin PLATFORM_STOPWORDS))

normalize_product_name(name) ==
    Strip(DropStopwords(StripArticle(CollapseWs(StripSpecial(Strip(Lower(name)))))))

----------------------------------------------------------------------------
(* thefuzz.fuzz.token_sort_ratio, as called by dedup.py                    *)

Max2(a, b) == IF a >= b THEN a ELSE b

\* utils.full_process: non-word characters become spaces, lowercase, strip
FullProcess(s) ==
    Strip(Lower([i \in DOMAIN s |-> IF IsWordChar(s[i]) THEN s[i] ELSE " "]))

CharRank(c) == CHOOSE i \in DOMAIN CharOrder : CharOrder[i] = c

\* lexicographic a < b on strings over CharOrder
RECURSIVE StrLess(_, _)
StrLess(a, b) ==
    IF b = <<>> THEN FALSE
    ELSE IF a = <<>> THEN TRUE
    ELSE IF Head(a) = Head(b) THEN StrLess(Tail(a), Tail(b))
    ELSE CharRank(Head(a)) < CharRank(Head(b))

RECURSIVE InsertSorted(_, _)
InsertSorted(t, ts) ==
    IF ts = <<>> THEN <<t>>
    ELSE IF StrLess(Head(ts), t) THEN <<Head(ts)>> \o InsertSorted(t, Tail(ts))
    ELSE <<t>> \o ts

RECURSIVE SortTokens(_)
SortTokens(ts) == IF ts = <<>> THEN <<>>
                  ELSE InsertSorted(Head(ts), SortTokens(Tail(ts)))

\* length of a longest common subsequence
RECURSIVE LCS(_, _)
LCS(a, b) ==
    IF a = <<>> \/ b = <<>> THEN 0
    ELSE IF Head(a) = Head(b) THEN 1 + LCS(Tail(a), Tail(b))
    ELSE Max2(LCS(Tail(a), b), LCS(a, Tail(b)))

\* int(round(x)) for x = num/den >= 0, rounding halves to even
RoundDiv(num, den) ==
    LET q == num \div den
        r == num % den
    IN IF 2 * r > den THEN q + 1
       ELSE IF 2 * r = den THEN q + (q % 2)
       ELSE q

\* fuzz.ratio: 100 * 2 * LCS / (len(a) + len(b))
Ratio(a, b) ==
    IF Len(a) + Len(b) = 0 THEN 100
    ELSE RoundDiv(200 * LCS(a, b), Len(a) + Len(b))

token_sort_ratio(s1, s2) ==
    Ratio(Join(SortTokens(Split(FullProcess(s1)))),
          Join(SortTokens(Split(FullProcess(s2)))))

----------------------------------------------------------------------------
(* Bounds and inputs of the resolver model                                 *)

MaxSignals == 3   \* signals collected over all runs
LogLen == 2       \* calls remembered from the empty store on

\* the collection jobs; a job's name is the source of its signals
Jobs == {"google_trends", "reddit"}

\* the collection jobs of the price model
PriceJobs == {"amazon", "tiktok"}

\* metadata values: no url or image, and the urls the collectors deliver
NoUrl == "none"
AmazonUrl == "https://www.amazon.com/dp/B0"
TikTokUrl == "https://shop.tiktok.com/p/1"
ImageUrl == "https://img/1.jpg"

Str_Ab_cd == <<"A","b"," ","c","d">>
Str_ab_cd_bang == <<"a","b"," ","c","d","!">>
Str_cd_ab == <<"c","d"," ","a","b">>
Str_ab_ce == <<"a","b"," ","c","e">>
Str_ab_xy == <<"a","b"," ","x","y">>
Str_ab_cef == <<"a","b"," ","c","e","f">>

\* product names as the collectors deliver them
RawNames == {Str_Ab_cd, Str_ab_cd_bang, Str_cd_ab, Str_ab_ce, Str_ab_xy,
             Str_ab_cef}

\* the product names of the price model, one a fuzzy match of the other, and
\* the prices in the metadata
PricedName == Str_Ab_cd
PricedNames == {PricedName, Str_ab_ce}
PriceValues == {NULL, 30, 50}

MaxPriced == 2    \* priced signals collected over all runs
MaxEnrich == 1    \* runs of the price enrichment job

IdleEnrichment == [pc |-> "idle", runs |-> 0, todo |-> <<>>, price |-> NULL,
                   obj |-> {}, dirty |-> {}]

----------------------------------------------------------------------------
(* dedup.py: find_or_create_product, one action per database round trip    *)

MATCH_THRESHOLD == 80

\* pendP, pendA, pendS, pendH: rows added and flushed but not committed;
\* batch: the signals list of the run; idx: position of an enrichment loop;
\* loaded: the Product objects of the identity map, with their attributes as
\* read when first loaded after the last commit; dirty: their changed columns
IdleSession == [pc |-> "idle", cur |-> <<>>, batch |-> <<>>, idx |-> 0,
                pendP |-> {}, pendA |-> <<>>, pendS |-> <<>>, pendH |-> <<>>,
                loaded |-> {}, dirty |-> {}]

NoMeta == [price |-> NULL, product_url |-> NoUrl, image_url |-> NoUrl]

NoCall == [job |-> "", raw |-> <<>>, how |-> "none", pid |-> 0]

\* what a SELECT of session j sees: committed rows and its own flushed rows
VisibleProducts(j) == products \cup sess[j].pendP
VisibleAliases(j) == aliases \o sess[j].pendA

\* rows of a set of products in primary-key order
RECURSIVE ById(_)
ById(ps) ==
    IF ps = {} THEN <<>>
    ELSE LET p == CHOOSE q \in ps : \A r \in ps : q.id <= r.id
         IN <<p>> \o ById(ps \ {p})

\* _get_aliases: the alias rows of one product
AliasesOf(as, pid) == SelectSeq(as, LAMBDA a : a.product_id = pid)

\* lines 49-53: the inner loop over one product's aliases
RECURSIVE ScanAliases(_, _, _, _)
ScanAliases(normalized, as, pid, best) ==
    IF as = <<>> THEN best
    ELSE LET alias_score == token_sort_ratio(normalized, Head(as).alias_name)
         IN ScanAliases(normalized, Tail(as), pid,
                        IF alias_score > best.score
                        THEN [score |-> alias_score, match |-> pid]
                        ELSE best)

\* lines 42-53: the loop over all products; match 0 stands for None
RECURSIVE ScanProducts(_, _, _, _)
ScanProducts(normalized, ps, as, best) ==
    IF ps = <<>> THEN best
    ELSE LET p == Head(ps)
             score == token_sort_ratio(normalized, p.canonical_name)
             b1 == IF score > best.score
                   THEN [score |-> score, match |-> p.id]
                   ELSE best
             b2 == ScanAliases(normalized, AliasesOf(as, p.id), p.id, b1)
         IN ScanProducts(normalized, Tail(ps), as, b2)

\* the scan of lines 41-53 over the products in the opposite order
BestMatch_LastFirst(normalized, ps, as) ==
    LET all_products == ById(ps)
        n == Len(all_products)
    IN ScanProducts(normalized, [i \in 1..n |-> all_products[n + 1 - i]], as,
                    [score |-> 0, match |-> 0])

\* lines 37-53: the products in store order, best_score 0 and best_match None
BestMatch(normalized, ps, as) ==
    ScanProducts(normalized, ById(ps), as, [score |-> 0, match |-> 0])

IsFuzzyMatch_Strict(best) == best.match # 0 /\ best.score > MATCH_THRESHOLD

\* line 55
IsFuzzyMatch(best) == best.match # 0 /\ best.score >= MATCH_THRESHOLD

NewProduct(id, name) ==
    [id |-> id, canonical_name |-> name, price_low |-> NULL, price_high |-> NULL,
     image_url |-> NoUrl, source_url |-> NoUrl]
NewAlias(pid, name, source) ==
    [product_id |-> pid, alias_name |-> name, source |-> source]

\* the name being resolved by session j
Normalized(j) == normalize_product_name(sess[j].cur.product_name)

Remember(call) ==
    /\ log' = IF Len(log) < LogLen THEN Append(log, call) ELSE log
    /\ last' = call

\* runner.py store_signals, lines 50-61: the resolver has returned product
\* pid; add the RawSignal row and go round the loop
Stored(j, pid, how, newP, newA) ==
    /\ sess' = [sess EXCEPT ![j] =
           [@ EXCEPT !.pc = "loop",
                     !.cur = <<>>,
                     !.batch = Append(@, sess[j].cur),
                     !.pendP = @ \cup newP,
                     !.pendA = @ \o newA,
                     !.pendS = Append(@, [product_id |-> pid, source |-> j,
                                          product_name |-> sess[j].cur.product_name])]]
    /\ Remember([job |-> j, raw |-> sess[j].cur.product_name, how |-> how,
                 pid |-> pid])
    /\ UNCHANGED raised

\* scalar_one_or_none() found several rows: MultipleResultsFound leaves
\* store_signals and the session block, which rolls the transaction back
Raised(j) ==
    /\ sess' = [sess EXCEPT ![j] = IdleSession]
    /\ Remember([job |-> j, raw |-> sess[j].cur.product_name, how |-> "raise",
                 pid |-> 0])
    /\ raised' = TRUE

\* the signals a job can collect: "mention" signals without price or url for
\* the jobs of the resolver model, priced signals with urls for the others
SignalsOf(j) ==
    IF j \in Jobs
    THEN {[product_name |-> raw, meta |-> NoMeta] : raw \in RawNames}
    ELSE {[product_name |-> raw,
           meta |-> [price |-> pr,
                     product_url |-> IF j = "amazon" THEN AmazonUrl ELSE TikTokUrl,
                     image_url |-> ImageUrl]] : raw \in PricedNames, pr \in PriceValues}

\* runner.py lines 45-49: store_signals takes the next signal of the job's
\* batch (the first one opens the session)
NextSignal(j) ==
    /\ sess[j].pc \in {"idle", "loop"}
    /\ collected < (IF j \in Jobs THEN MaxSignals ELSE MaxPriced)
    /\ (serial /\ sess[j].pc = "idle") => \A k \in DOMAIN sess : sess[k].pc = "idle"
    /\ \E sig \in SignalsOf(j) :
         sess' = [sess EXCEPT ![j] = [@ EXCEPT !.pc = "exact", !.cur = sig]]
    /\ collected' = collected + 1
    /\ UNCHANGED <<serial, products, aliases, rawSignals, nextId, priceHistory,
                   enr, log, last, raised>>

\* lines 23-29: exact match on canonical_name
ExactMatch(j) ==
    /\ sess[j].pc = "exact"
    /\ LET hits == {p \in VisibleProducts(j) : p.canonical_name = Normalized(j)}
       IN IF Cardinality(hits) > 1 THEN Raised(j)
          ELSE IF hits # {}
               THEN Stored(j, (CHOOSE p \in hits : TRUE).id, "exact", {}, <<>>)
               ELSE /\ sess' = [sess EXCEPT ![j].pc = "alias"]
                    /\ UNCHANGED <<log, last, raised>>
    /\ UNCHANGED <<serial, collected, products, aliases, rawSignals, nextId,
                   priceHistory, enr>>

\* lines 31-35: exact match on an alias
AliasMatch(j) ==
    /\ sess[j].pc = "alias"
    /\ LET hits == SelectSeq(VisibleAliases(j),
                             LAMBDA a : a.alias_name = Normalized(j))
       IN IF Len(hits) > 1 THEN Raised(j)
          ELSE IF Len(hits) = 1
               THEN Stored(j, hits[1].product_id, "alias", {}, <<>>)
               ELSE /\ sess' = [sess EXCEPT ![j].pc = "fuzzy"]
                    /\ UNCHANGED <<log, last, raised>>
    /\ UNCHANGED <<serial, collected, products, aliases, rawSignals, nextId,
                   priceHistory, enr>>

\* lines 37-71 without the alias of lines 56-62 for a fuzzy match
FuzzyOrCreate_NoFuzzyAlias(j) ==
    /\ sess[j].pc = "fuzzy"
    /\ LET normalized == Normalized(j)
           best == BestMatch(normalized, VisibleProducts(j), VisibleAliases(j))
       IN IF IsFuzzyMatch(best)
          THEN /\ Stored(j, best.match, "fuzzy", {}, <<>>)
               /\ UNCHANGED nextId
          ELSE /\ Stored(j, nextId, "create", {NewProduct(nextId, normalized)},
                         <<NewAlias(nextId, normalized, j)>>)
               /\ nextId' = nextId + 1
    /\ UNCHANGED <<serial, collected, products, aliases, rawSignals,
                   priceHistory, enr>>

\* lines 37-71 without the alias of line 69 for a new product
FuzzyOrCreate_NoOwnAlias(j) ==
    /\ sess[j].pc = "fuzzy"
    /\ LET normalized == Normalized(j)
           best == BestMatch(normalized, VisibleProducts(j), VisibleAliases(j))
       IN IF IsFuzzyMatch(best)
          THEN /\ Stored(j, best.match, "fuzzy", {},
                         <<NewAlias(best.match, normalized, j)>>)
               /\ UNCHANGED nextId
          ELSE /\ Stored(j, nextId, "create", {NewProduct(nextId, normalized)}, <<>>)
               /\ nextId' = nextId + 1
    /\ UNCHANGED <<serial, collected, products, aliases, rawSignals,
                   priceHistory, enr>>

\* lines 37-71: fuzzy scan, then a new alias or a new product
FuzzyOrCreate(j) ==
    /\ sess[j].pc = "fuzzy"
    /\ LET normalized == Normalized(j)
           best == BestMatch(normalized, VisibleProducts(j), VisibleAliases(j))
       IN IF IsFuzzyMatch(best)
          THEN /\ Stored(j, best.match, "fuzzy", {},
                         <<NewAlias(best.match, normalized, j)>>)
               /\ UNCHANGED nextId
          ELSE /\ Stored(j, nextId, "create", {NewProduct(nextId, normalized)},
                         <<NewAlias(nextId, normalized, j)>>)
               /\ nextId' = nextId + 1
    /\ UNCHANGED <<serial, collected, products, aliases, rawSignals,
                   priceHistory, enr>>

\* where a job goes after store_signals: the jobs of the resolver model are
\* done (their signals carry no price and no url, so the enrichment loops
\* skip every signal); the others go on to _record_price_history
AfterStore(j) ==
    IF j \in PriceJobs
    THEN [IdleSession EXCEPT !.pc = "price", !.batch = sess[j].batch, !.idx = 1]
    ELSE IdleSession

CommitStore_RolledBack(j) ==
    /\ sess[j].pc = "loop"
    /\ sess' = [sess EXCEPT ![j] = AfterStore(j)]
    /\ UNCHANGED <<serial, collected, products, aliases, rawSignals, nextId,
                   priceHistory, enr, log, last, raised>>

\* runner.py line 63: session.commit() publishes the session's rows
CommitStore(j) ==
    /\ sess[j].pc = "loop"
    /\ products' = products \cup sess[j].pendP
    /\ aliases' = aliases \o sess[j].pendA
    /\ rawSignals' = rawSignals \o sess[j].pendS
    /\ sess' = [sess EXCEPT ![j] = AfterStore(j)]
    /\ UNCHANGED <<serial, collected, nextId, priceHistory, enr, log, last, raised>>

----------------------------------------------------------------------------
(* runner.py: price history and enrichment                                 *)

\* the Product object a session holds for a row of the database: the one of
\* its identity map when the row was loaded before, else the row as it is now
ObjectOf(loaded, row) ==
    IF \E o \in loaded : o.id = row.id
    THEN CHOOSE o \in loaded : o.id = row.id
    ELSE row

\* _write_price_for_product, lines 235-238, on the attributes of the object
WritePrice(obj, price_val) ==
    [obj EXCEPT
        !.price_low = IF obj.price_low = NULL \/ price_val < obj.price_low
                      THEN price_val ELSE @,
        !.price_high = IF obj.price_high = NULL \/ price_val > obj.price_high
                       THEN price_val ELSE @]

Columns == {"price_low", "price_high", "image_url", "source_url"}

\* the columns an UPDATE of the changed object writes
Changed(old, new) == {c \in Columns : old[c] # new[c]}

\* the row after the UPDATE that flushes object obj with changed columns cols
Updated(row, obj, cols) ==
    [c \in DOMAIN row |-> IF c \in cols THEN obj[c] ELSE row[c]]

\* the committed table products after session j flushes and commits
Flushed(j) ==
    {Updated(p, ObjectOf(sess[j].loaded, p),
             {c \in Columns : <<p.id, c>> \in sess[j].dirty}) : p \in products}

\* session j changes the attributes of a loaded product
Touch(j, old, new) ==
    [sess[j] EXCEPT
        !.loaded = {o \in @ : o.id # old.id} \cup {new},
        !.dirty = @ \cup {<<old.id, c>> : c \in Changed(old, new)},
        !.idx = @ + 1]

\* select(Product).where(Product.canonical_name == normalize_product_name(..))
ByCanonicalName(j, raw) ==
    {p \in VisibleProducts(j) : p.canonical_name = normalize_product_name(raw)}

\* _record_price_history, lines 245-262: one signal of the batch
RecordPrice(j) ==
    /\ sess[j].pc = "price"
    /\ sess[j].idx <= Len(sess[j].batch)
    /\ LET sig == sess[j].batch[sess[j].idx]
           hits == ByCanonicalName(j, sig.product_name)
       IN IF sig.meta.price = NULL \/ hits = {}
          THEN sess' = [sess EXCEPT ![j].idx = @ + 1]
          ELSE IF Cardinality(hits) > 1
          THEN sess' = [sess EXCEPT ![j] = IdleSession]
          ELSE LET old == ObjectOf(sess[j].loaded, CHOOSE p \in hits : TRUE)
                   new == WritePrice(old, sig.meta.price)
               IN sess' = [sess EXCEPT ![j] =
                      [Touch(j, old, new) EXCEPT
                          !.pendH = Append(@, [product_id |-> old.id,
                                               price |-> sig.meta.price,
                                               source |-> j])]]
    /\ UNCHANGED <<serial, collected, products, aliases, rawSignals, nextId,
                   priceHistory, enr, log, last, raised>>

\* _record_price_history, line 264: commit; the objects expire
CommitPrices(j) ==
    /\ sess[j].pc = "price"
    /\ sess[j].idx > Len(sess[j].batch)
    /\ products' = Flushed(j)
    /\ priceHistory' = priceHistory \o sess[j].pendH
    /\ sess' = [sess EXCEPT ![j] =
           [IdleSession EXCEPT !.pc = "urls", !.batch = sess[j].batch, !.idx = 1]]
    /\ UNCHANGED <<serial, collected, aliases, rawSignals, nextId, enr,
                   log, last, raised>>

\* _enrich_products_from_amazon, lines 273-296, for the amazon job and
\* _enrich_source_urls, lines 303-315, for the others: one signal
EnrichUrl(j) ==
    /\ sess[j].pc = "urls"
    /\ sess[j].idx <= Len(sess[j].batch)
    /\ LET sig == sess[j].batch[sess[j].idx]
           hits == ByCanonicalName(j, sig.product_name)
           skip == IF j = "amazon" THEN sig.meta.image_url = NoUrl
                   ELSE sig.meta.product_url = NoUrl
       IN IF skip \/ hits = {}
          THEN sess' = [sess EXCEPT ![j].idx = @ + 1]
          ELSE IF Cardinality(hits) > 1
          THEN sess' = [sess EXCEPT ![j] = IdleSession]
          ELSE LET old == ObjectOf(sess[j].loaded, CHOOSE p \in hits : TRUE)
                   new == [old EXCEPT
                             !.image_url = IF j = "amazon" /\ @ = NoUrl
                                           THEN sig.meta.image_url ELSE @,
                             !.source_url = IF sig.meta.product_url # NoUrl
                                               /\ @ = NoUrl
                                            THEN sig.meta.product_url ELSE @]
               IN sess' = [sess EXCEPT ![j] = Touch(j, old, new)]
    /\ UNCHANGED <<serial, collected, products, aliases, rawSignals, nextId,
                   priceHistory, enr, log, last, raised>>

\* lines 298 and 316: commit of the url enrichment; the job is done
CommitUrls(j) ==
    /\ sess[j].pc = "urls"
    /\ sess[j].idx > Len(sess[j].batch)
    /\ products' = Flushed(j)
    /\ sess' = [sess EXCEPT ![j] = IdleSession]
    /\ UNCHANGED <<serial, collected, aliases, rawSignals, nextId, priceHistory,
                   enr, log, last, raised>>

\* run_price_enrichment, lines 323-330: the products with an Amazon url
EnrichStart ==
    /\ enr.pc = "idle"
    /\ enr.runs < MaxEnrich
    /\ enr' = [enr EXCEPT !.pc = "fetch", !.runs = @ + 1,
                          !.todo = ById({p \in products : p.source_url = AmazonUrl})]
    /\ UNCHANGED <<serial, collected, products, aliases, rawSignals, nextId, sess,
                   priceHistory, log, last, raised>>

\* lines 334-337: fetch_product_price answers with a price or with None
EnrichFetch ==
    /\ enr.pc = "fetch"
    /\ enr.todo # <<>>
    /\ \E price \in PriceValues :
         enr' = IF price = NULL
                THEN [enr EXCEPT !.todo = Tail(@)]
                ELSE [enr EXCEPT !.pc = "get", !.price = price]
    /\ UNCHANGED <<serial, collected, products, aliases, rawSignals, nextId, sess,
                   priceHistory, log, last, raised>>

\* lines 338-341: a new session gets the row and writes the price on it
EnrichGet ==
    /\ enr.pc = "get"
    /\ LET hits == {p \in products : p.id = Head(enr.todo).id}
       IN IF hits = {}
          THEN enr' = [enr EXCEPT !.pc = "fetch", !.todo = Tail(@)]
          ELSE LET old == CHOOSE p \in hits : TRUE
                   new == WritePrice(old, enr.price)
               IN enr' = [enr EXCEPT !.pc = "commit", !.obj = new,
                                     !.dirty = Changed(old, new)]
    /\ UNCHANGED <<serial, collected, products, aliases, rawSignals, nextId, sess,
                   priceHistory, log, last, raised>>

\* line 342: commit of the one price
EnrichCommit ==
    /\ enr.pc = "commit"
    /\ products' = {IF p.id = enr.obj.id THEN Updated(p, enr.obj, enr.dirty) ELSE p :
                      p \in products}
    /\ priceHistory' = Append(priceHistory, [product_id |-> enr.obj.id,
                                             price |-> enr.price,
                                             source |-> "amazon"])
    /\ enr' = [enr EXCEPT !.pc = "fetch", !.todo = Tail(@), !.price = NULL,
                          !.obj = {}, !.dirty = {}]
    /\ UNCHANGED <<serial, collected, aliases, rawSignals, nextId, sess,
                   log, last, raised>>

\* lines 346-347: every product was visited
EnrichDone ==
    /\ enr.pc = "fetch"
    /\ enr.todo = <<>>
    /\ enr' = [enr EXCEPT !.pc = "idle"]
    /\ UNCHANGED <<serial, collected, products, aliases, rawSignals, nextId, sess,
                   priceHistory, log, last, raised>>

----------------------------------------------------------------------------
(* trend_scorer.py: the component scorers.  A score is an integer number   *)
(* of hundredths of a point, so 100.00 is 100 * Centi; signal values,      *)
(* counts and prices are whole numbers.  A text is a sequence of words.    *)

Centi == 100

Min2(a, b) == IF a <= b THEN a ELSE b

\* min(max(x, lo), hi)
Clamp(x, lo, hi) == Min2(Max2(x, lo), hi)

\* max(values, default=0.0)
MaxOf(S) == IF S = {} THEN 0 ELSE CHOOSE x \in S : \A y \in S : y <= x

RECURSIVE SumSeq(_)
SumSeq(s) == IF s = <<>> THEN 0 ELSE Head(s) + SumSeq(Tail(s))

\* the scoring weights, in percent
W_SEARCH_ACCEL == 25
W_SOCIAL_VELOCITY == 18
W_RETAIL_MOMENTUM == 12
W_PRICE_FIT == 10
W_SENTIMENT == 10
W_TREND_SHAPE == 8
W_PLATFORM_COUNT == 7
W_PURCHASE_INTENT == 5
W_RECENCY == 5

\* metadata_json with none of the keys followed here; a missing count is
\* NULL, a missing text is empty
NoMetadata ==
    [title |-> <<>>, body |-> <<>>, review_text |-> <<>>,
     top_comments |-> [null |-> FALSE, items |-> <<>>],
     num_comments |-> NULL, play_count |-> NULL, like_count |-> NULL,
     share_count |-> NULL, comment_count |-> NULL, author |-> ""]

\* meta.get(key, 0) or 0
Count(x) == IF x = NULL THEN 0 ELSE x

\* [s for s in signals if s.source == source and s.signal_type == signal_type]
Of(signals, source, signal_type) ==
    SelectSeq(signals, LAMBDA s : s.source = source /\ s.signal_type = signal_type)

Values(signals) == {signals[i].value : i \in DOMAIN signals}

\* _compute_search_accel
search_accel(signals) ==
    LET velocity == MaxOf(Values(Of(signals, "google_trends", "search_velocity")))
        base == Clamp(RoundDiv(velocity * Centi, 50), 0, 100 * Centi)
        breakout_bonus == IF Of(signals, "google_trends", "breakout") # <<>>
                          THEN 30 * Centi ELSE 0
        rising_bonus == Min2(Len(Of(signals, "google_trends", "rising")) * 5, 20) * Centi
    IN Min2(base + breakout_bonus + rising_bonus, 100 * Centi)

\* _compute_social_velocity
social_velocity(signals) ==
    LET tiktok_signals == Of(signals, "tiktok", "tiktok_popularity")
        tiktok_raw == MaxOf(Values(tiktok_signals))
        detailed == SelectSeq(tiktok_signals, LAMBDA s :
                        s.meta.play_count # NULL \/ s.meta.like_count # NULL)
        plays == MaxOf({Count(detailed[i].meta.play_count) : i \in DOMAIN detailed})
        likes == MaxOf({Count(detailed[i].meta.like_count) : i \in DOMAIN detailed})
        shares == MaxOf({Count(detailed[i].meta.share_count) : i \in DOMAIN detailed})
        comments_t == MaxOf({Count(detailed[i].meta.comment_count) : i \in DOMAIN detailed})
        views_norm == Min2(RoundDiv(plays * Centi, 100000), 100 * Centi)
        likes_norm == Min2(RoundDiv(likes * Centi, 10000), 100 * Centi)
        shares_norm == Min2(RoundDiv(shares * Centi, 1000), 100 * Centi)
        cmt_t_norm == Min2(RoundDiv(comments_t * Centi, 500), 100 * Centi)
        tiktok_norm ==
            IF detailed # <<>>
            THEN RoundDiv(30 * views_norm + 40 * likes_norm
                          + 20 * shares_norm + 10 * cmt_t_norm, 100)
            ELSE Clamp(RoundDiv(tiktok_raw * Centi, 100), 0, 100 * Centi)
        reddit_signals == Of(signals, "reddit", "upvote_velocity")
        reddit_raw == MaxOf(Values(reddit_signals))
        reddit_comments ==
            MaxOf({Count(reddit_signals[i].meta.num_comments) : i \in DOMAIN reddit_signals})
        comment_norm == Min2(RoundDiv(reddit_comments * Centi, 100), 100 * Centi)
        reddit_norm == Min2(RoundDiv(80 * Min2(reddit_raw * Centi, 100 * Centi)
                                     + 20 * comment_norm, 100), 100 * Centi)
        etsy_raw == MaxOf(Values(Of(signals, "etsy", "etsy_trending")))
        etsy_norm == Min2(RoundDiv(etsy_raw * Centi, 500), 100 * Centi)
        authors == {tiktok_signals[i].meta.author : i \in DOMAIN tiktok_signals} \ {""}
        diversity_bonus == Min2(Cardinality(authors) * 5, 15) * Centi
    IN Min2(RoundDiv(55 * tiktok_norm + 35 * reddit_norm + 10 * etsy_norm, 100)
            + diversity_bonus, 100 * Centi)

\* _compute_price_fit with the price 80 left out of the branch of line 171
price_fit_Gap(product) ==
    LET low == product.price_low
        high == product.price_high
        price == IF low # NULL /\ high # NULL THEN ((low + high) * Centi) \div 2
                 ELSE IF low # NULL THEN low * Centi
                 ELSE high * Centi
    IN IF low = NULL /\ high = NULL THEN 50 * Centi
       ELSE IF 20 * Centi <= price /\ price <= 60 * Centi THEN 100 * Centi
       ELSE IF 10 * Centi <= price /\ price < 20 * Centi
            THEN 50 * Centi + RoundDiv((price - 10 * Centi) * 50, 10)
       ELSE IF 60 * Centi < price /\ price < 80 * Centi
            THEN 100 * Centi - RoundDiv((price - 60 * Centi) * 50, 20)
       ELSE IF 0 <= price /\ price < 10 * Centi
            THEN RoundDiv(price * 50, 10)
       ELSE IF 80 * Centi < price /\ price <= 150 * Centi
            THEN Max2(50 * Centi - RoundDiv((price - 80 * Centi) * 50, 70), 0)
       ELSE 0

\* _compute_price_fit; price is the midpoint in hundredths of a dollar
price_fit(product) ==
    LET low == product.price_low
        high == product.price_high
        price == IF low # NULL /\ high # NULL THEN ((low + high) * Centi) \div 2
                 ELSE IF low # NULL THEN low * Centi
                 ELSE high * Centi
    IN IF low = NULL /\ high = NULL THEN 50 * Centi
       ELSE IF 20 * Centi <= price /\ price <= 60 * Centi THEN 100 * Centi
       ELSE IF 10 * Centi <= price /\ price < 20 * Centi
            THEN 50 * Centi + RoundDiv((price - 10 * Centi) * 50, 10)
       ELSE IF 60 * Centi < price /\ price <= 80 * Centi
            THEN 100 * Centi - RoundDiv((price - 60 * Centi) * 50, 20)
       ELSE IF 0 <= price /\ price < 10 * Centi
            THEN RoundDiv(price * 50, 10)
       ELSE IF 80 * Centi < price /\ price <= 150 * Centi
            THEN Max2(50 * Centi - RoundDiv((price - 80 * Centi) * 50, 70), 0)
       ELSE 0

\* the last n elements of a sequence
LastN(s, n) == IF Len(s) <= n THEN s ELSE SubSeq(s, Len(s) - n + 1, Len(s))

\* _compute_trend_shape with the declining branch of lines 209-211 tried
\* before the spike-then-drop scan of lines 204-206
trend_shape_DeclineFirst(scores) ==
    LET n == Len(scores) - 1
        deltas == [i \in 1..n |-> scores[i + 1] - scores[i]]
        total == SumSeq(deltas)
    IN IF Len(scores) < 3 THEN 50 * Centi
       ELSE IF total < -2 * Centi * n
            THEN Max2(30 * Centi + RoundDiv((total + 2 * Centi * n) * 30, 18 * n), 0)
       ELSE IF \E i \in 1..(n - 1) :
                   deltas[i] > 15 * Centi /\ deltas[i + 1] < -10 * Centi
            THEN 15 * Centi
       ELSE IF total > 0 /\ \A i \in 1..n : deltas[i] <= 20 * Centi
            THEN Min2(70 * Centi + RoundDiv(total * 30, 10 * n), 100 * Centi)
       ELSE 50 * Centi

\* _compute_trend_shape on the scores of the product's latest ten snapshots,
\* oldest first
trend_shape(scores) ==
    LET n == Len(scores) - 1
        deltas == [i \in 1..n |-> scores[i + 1] - scores[i]]
        total == SumSeq(deltas)
    IN IF Len(scores) < 3 THEN 50 * Centi
       ELSE IF \E i \in 1..(n - 1) :
                   deltas[i] > 15 * Centi /\ deltas[i + 1] < -10 * Centi
            THEN 15 * Centi
       ELSE IF total < -2 * Centi * n
            THEN Max2(30 * Centi + RoundDiv((total + 2 * Centi * n) * 30, 18 * n), 0)
       ELSE IF total > 0 /\ \A i \in 1..n : deltas[i] <= 20 * Centi
            THEN Min2(70 * Centi + RoundDiv(total * 30, 10 * n), 100 * Centi)
       ELSE 50 * Centi

\* word sequences that _INTENT_PATTERNS matches
IntentPhrases ==
    { <<"where", "to", "buy">>, <<"need", "this">>, <<"take", "my", "money">>,
      <<"just", "bought">>, <<"how", "much">>, <<"in", "stock">>,
      <<"link">>, <<"price">>, <<"cost">> }

\* _INTENT_PATTERNS.search(text)
IntentMatch(text) ==
    \E ph \in IntentPhrases : \E i \in 1..Len(text) :
        i + Len(ph) - 1 <= Len(text) /\ SubSeq(text, i, i + Len(ph) - 1) = ph

\* the texts _compute_purchase_intent collects from one signal, lines 236-247
IntentTextsOf(s) ==
    IF s.source \notin {"reddit", "amazon", "tiktok"} THEN <<>>
    ELSE (IF s.meta.title # <<>> THEN <<s.meta.title>> ELSE <<>>)
         \o s.meta.top_comments.items
         \o (IF s.meta.body # <<>> THEN <<s.meta.body>> ELSE <<>>)

RECURSIVE IntentTexts(_)
IntentTexts(signals) ==
    IF signals = <<>> THEN <<>>
    ELSE IntentTextsOf(Head(signals)) \o IntentTexts(Tail(signals))

\* line 239: iterating over "top_comments": null raises TypeError
IntentRaises(signals) ==
    \E i \in DOMAIN signals :
        /\ signals[i].source \in {"reddit", "amazon", "tiktok"}
        /\ signals[i].meta.top_comments.null

\* _compute_purchase_intent, when it returns
purchase_intent(signals) ==
    LET texts == IntentTexts(signals)
        matches == Len(SelectSeq(texts, IntentMatch))
    IN IF texts = <<>> THEN 0
       ELSE Min2(RoundDiv(matches * 100 * Centi, Len(texts)), 100 * Centi)

\* _compute_retail_momentum
retail_momentum(signals) ==
    LET amazon_raw == MaxOf(Values(Of(signals, "amazon", "bsr_momentum")))
        amazon_norm == Clamp(RoundDiv(amazon_raw * Centi, 10), 0, 100 * Centi)
        walmart_norm == MaxOf(Values(Of(signals, "walmart", "walmart_bestseller"))) * Centi
        target_norm == MaxOf(Values(Of(signals, "target", "target_trending"))) * Centi
    IN Max2(amazon_norm, Max2(walmart_norm, target_norm))

----------------------------------------------------------------------------
(* sentiment.py and score_product                                          *)

\* first n elements of a sequence
FirstN(s, n) == IF Len(s) <= n THEN s ELSE SubSeq(s, 1, n)

\* the texts compute_product_sentiment collects from one signal, lines 98-106
SentimentTextsOf(s) ==
    (IF s.meta.title # <<>> THEN <<s.meta.title>> ELSE <<>>)
    \o FirstN(s.meta.top_comments.items, 5)
    \o (IF s.meta.review_text # <<>> THEN <<s.meta.review_text>> ELSE <<>>)

RECURSIVE SentimentTexts(_)
SentimentTexts(signals) ==
    IF signals = <<>> THEN <<>>
    ELSE SentimentTextsOf(Head(signals)) \o SentimentTexts(Tail(signals))

\* lines 79-109: TRUE when the classifier is run on the product's texts
ClassifierInvoked(signals) ==
    SentimentTexts(SelectSeq(signals, LAMBDA s : s.source \in {"reddit", "amazon"})) # <<>>

\* what _run_inference may answer, rounded to two decimals
SentimentValues == {0, 100 * Centi}

\* compute_product_sentiment, when it returns
Sentiments(signals) ==
    IF ClassifierInvoked(signals) THEN SentimentValues ELSE {50 * Centi}

DaysPerTick == 16

\* lines 283-292: the product's signals collected on or after the cutoff
Window(pid) ==
    SelectSeq(rawSignals, LAMBDA s :
        s.product_id = pid /\ s.collected_at * DaysPerTick >= now * DaysPerTick - 31)

\* line 313
Recent(signals) ==
    SelectSeq(signals, LAMBDA s : s.collected_at * DaysPerTick >= now * DaysPerTick - 1)

\* lines 185-195 without the product_id filter of line 188
History_AllProducts(pid) ==
    LET rows == trendScores \o sc.pend
        latest == LastN(rows, 10)
    IN [i \in DOMAIN latest |-> latest[i].score]

\* lines 185-195: the scores of the product's latest ten snapshots the
\* session sees, oldest first
History(pid) ==
    LET rows == SelectSeq(trendScores \o sc.pend, LAMBDA t : t.product_id = pid)
        latest == LastN(rows, 10)
    IN [i \in DOMAIN latest |-> latest[i].score]

\* score_product, lines 294-357: the TrendScore row
score_product(product, signals, sentiment_score) ==
    LET platform_count == Cardinality({signals[i].source : i \in DOMAIN signals})
        platform_norm == Min2(RoundDiv(platform_count * 100 * Centi, 7), 100 * Centi)
        recency_norm == Min2(RoundDiv(Len(Recent(signals)) * 100 * Centi, 5), 100 * Centi)
        shape == trend_shape(History(product.id))
        google_norm ==
            Clamp(RoundDiv(MaxOf(Values(Of(signals, "google_trends", "search_velocity")))
                           * Centi, 50), 0, 100 * Centi)
        reddit_norm ==
            Min2(MaxOf(Values(Of(signals, "reddit", "upvote_velocity"))) * Centi, 100 * Centi)
        tiktok_norm ==
            Clamp(RoundDiv(MaxOf(Values(Of(signals, "tiktok", "tiktok_popularity")))
                           * Centi, 100), 0, 100 * Centi)
        score == W_SEARCH_ACCEL * search_accel(signals)
                 + W_SOCIAL_VELOCITY * social_velocity(signals)
                 + W_RETAIL_MOMENTUM * retail_momentum(signals)
                 + W_PRICE_FIT * price_fit(product)
                 + W_SENTIMENT * sentiment_score
                 + W_TREND_SHAPE * shape
                 + W_PLATFORM_COUNT * platform_norm
                 + W_PURCHASE_INTENT * purchase_intent(signals)
                 + W_RECENCY * recency_norm
    IN [product_id |-> product.id,
        score |-> Min2(RoundDiv(score, 100), 100 * Centi),
        google_velocity |-> google_norm,
        reddit_accel |-> reddit_norm,
        amazon_accel |-> retail_momentum(signals),
        tiktok_accel |-> tiktok_norm,
        platform_count |-> platform_count,
        sentiment |-> sentiment_score,
        search_accel |-> search_accel(signals),
        social_velocity |-> social_velocity(signals),
        price_fit |-> price_fit(product),
        trend_shape |-> shape,
        purchase_intent |-> purchase_intent(signals),
        recency |-> recency_norm]

----------------------------------------------------------------------------
(* score_all_products, with the collectors and the clock around it         *)

MaxScored == 2      \* signals stored for the scored products
MaxTicks == 2       \* ticks of the clock
MaxScoreRuns == 2   \* runs of run_scoring

IdleScoring == [pc |-> "idle", runs |-> 0, products |-> <<>>, idx |-> 0,
                pend |-> <<>>]

Text_buy == <<"where", "to", "buy", "it">>
Text_nice == <<"nice", "lamp">>

\* kinds of signal the collectors hand over: source, type, value, metadata
SignalKinds ==
    { [source |-> "google_trends", signal_type |-> "search_velocity",
       value |-> 2500, meta |-> NoMetadata],
      [source |-> "google_trends", signal_type |-> "rising",
       value |-> 100, meta |-> NoMetadata],
      [source |-> "reddit", signal_type |-> "upvote_velocity", value |-> -1000,
       meta |-> [NoMetadata EXCEPT !.title = Text_buy, !.num_comments = 40]],
      [source |-> "reddit", signal_type |-> "mention", value |-> 1,
       meta |-> [NoMetadata EXCEPT !.top_comments = [null |-> TRUE, items |-> <<>>]]],
      [source |-> "tiktok", signal_type |-> "tiktok_popularity", value |-> 5000,
       meta |-> [NoMetadata EXCEPT !.play_count = 2000000, !.like_count = 50000,
                                   !.author = "ann", !.body = Text_nice]],
      [source |-> "walmart", signal_type |-> "walmart_bestseller",
       value |-> 250, meta |-> NoMetadata],
      [source |-> "etsy", signal_type |-> "etsy_trending",
       value |-> 1000, meta |-> NoMetadata] }

\* price bounds of the scored products
PricePairs == { <<NULL, NULL>>, <<70, 200>> }

ScoredNames == << <<"a","b"," ","c","d">>, <<"x","y">> >>

\* store_signals for one signal of an existing product, with its commit
StoreSignal ==
    /\ collected < MaxScored
    /\ \E k \in SignalKinds : \E p \in products :
         rawSignals' = Append(rawSignals,
             [product_id |-> p.id, source |-> k.source,
              signal_type |-> k.signal_type, value |-> k.value,
              collected_at |-> now, meta |-> k.meta])
    /\ collected' = collected + 1
    /\ UNCHANGED <<serial, products, aliases, nextId, sess, priceHistory, enr,
                   log, last, raised, now, trendScores, sc>>

\* time passes
Tick ==
    /\ now < MaxTicks
    /\ now' = now + 1
    /\ UNCHANGED <<storeVars, trendScores, sc>>

\* score_all_products, lines 365-375: the products that have a signal
ScoreStart ==
    /\ sc.pc = "idle"
    /\ sc.runs < MaxScoreRuns
    /\ sc' = [sc EXCEPT
           !.pc = "loop", !.runs = @ + 1, !.idx = 1, !.pend = <<>>,
           !.products = ById({p \in products :
               \E i \in DOMAIN rawSignals : rawSignals[i].product_id = p.id})]
    /\ UNCHANGED <<storeVars, now, trendScores>>

\* lines 378-380: score_product returns and the snapshot is added
ScoreOne ==
    /\ sc.pc = "loop"
    /\ sc.idx <= Len(sc.products)
    /\ LET product == sc.products[sc.idx]
           signals == Window(product.id)
       IN /\ ~IntentRaises(signals)
          /\ \E sentiment_score \in Sentiments(signals) :
               sc' = [sc EXCEPT
                   !.idx = @ + 1,
                   !.pend = Append(@, score_product(product, signals, sentiment_score))]
    /\ UNCHANGED <<storeVars, now, trendScores>>

\* score_product raises: the classifier fails (sentiment.py line 112) or the
\* metadata cannot be iterated (line 239); run_scoring, lines 353-354, leaves
\* the session without a commit
ScoreRaise ==
    /\ sc.pc = "loop"
    /\ sc.idx <= Len(sc.products)
    /\ LET signals == Window(sc.products[sc.idx].id)
       IN ClassifierInvoked(signals) \/ IntentRaises(signals)
    /\ sc' = [IdleScoring EXCEPT !.runs = sc.runs]
    /\ UNCHANGED <<storeVars, now, trendScores>>

\* line 382: commit
ScoreCommit ==
    /\ sc.pc = "loop"
    /\ sc.idx > Len(sc.products)
    /\ trendScores' = trendScores \o sc.pend
    /\ sc' = [IdleScoring EXCEPT !.runs = sc.runs]
    /\ UNCHANGED <<storeVars, now>>

----------------------------------------------------------------------------
(* recommender.py: selection of the candidates                             *)

\* a TrendScore row with the columns the recommender reads
Snapshot(pid, score, shape_val, fit, sent, social, platforms) ==
    [product_id |-> pid, score |-> score,
     google_velocity |-> 0, reddit_accel |-> 0, amazon_accel |-> 0,
     tiktok_accel |-> 0, platform_count |-> platforms, sentiment |-> sent,
     search_accel |-> 0, social_velocity |-> social, price_fit |-> fit,
     trend_shape |-> shape_val, purchase_intent |-> 0, recency |-> 0]

\* units of the suitability composite per point: hundredths times the 100
\* of the percent weights times the 7 of platform_count / 7.0
DsUnit == 700 * Centi

\* line 56: platform_score, in sevenths of a hundredth of a point
platform_score(ts) == ts.platform_count * 100 * Centi

\* _compute_ds_score, in DsUnit-ths of a point
compute_ds_score(ts) ==
    7 * (30 * ts.trend_shape + 25 * ts.price_fit + 20 * ts.sentiment
         + 15 * ts.social_velocity)
    + 10 * ts.platform_count * 100 * Centi

\* lines 193-206: func.max(TrendScore.id) of one product, 0 when it has none
LatestId(pid) ==
    MaxOf({i \in DOMAIN trendScores : trendScores[i].product_id = pid})

\* lines 202-217: every product joined with its latest snapshot, and its
\* suitability composite
Scored ==
    LET ps == ById({p \in products : LatestId(p.id) # 0})
    IN [i \in DOMAIN ps |->
           [product |-> ps[i], id |-> LatestId(ps[i].id),
            ts |-> trendScores[LatestId(ps[i].id)],
            ds |-> compute_ds_score(trendScores[LatestId(ps[i].id)])]]

\* the sort keys: lambda x: x[2] and lambda x: x[1].score
KeyOf(e, key) == IF key = "ds" THEN e.ds ELSE e.ts.score

\* list.sort(key=..., reverse=True): largest key first, equal keys in the
\* order they had; e stood before every element of es
RECURSIVE InsertDesc(_, _, _)
InsertDesc(e, es, key) ==
    IF es = <<>> THEN <<e>>
    ELSE IF KeyOf(Head(es), key) > KeyOf(e, key)
         THEN <<Head(es)>> \o InsertDesc(e, Tail(es), key)
    ELSE <<e>> \o es

RECURSIVE SortDesc(_, _)
SortDesc(es, key) ==
    IF es = <<>> THEN <<>>
    ELSE InsertDesc(Head(es), SortDesc(Tail(es), key), key)

\* lines 220-223, with the fad value kept
StrictFilter_KeepFad(scored) ==
    SelectSeq(scored, LAMBDA e : e.ts.score >= 30 * Centi /\ e.ts.trend_shape >= 15 * Centi)

\* lines 220-223
StrictFilter(scored) ==
    SelectSeq(scored, LAMBDA e : e.ts.score >= 30 * Centi /\ e.ts.trend_shape > 15 * Centi)

\* lines 231-234, with the trend-shape condition kept
RelaxedFilter_WithShape(scored) ==
    SelectSeq(scored, LAMBDA e : e.ts.score >= 20 * Centi /\ e.ts.trend_shape > 15 * Centi)

\* lines 231-234
RelaxedFilter(scored) ==
    SelectSeq(scored, LAMBDA e : e.ts.score >= 20 * Centi)

\* lines 219-243: the candidates of a call with top_n >= 1
Top(scored, top_n) ==
    LET strict == StrictFilter(scored)
        filtered == IF Len(strict) < top_n THEN RelaxedFilter(scored) ELSE strict
        top == FirstN(SortDesc(filtered, "ds"), top_n)
    IN IF top = <<>> THEN FirstN(SortDesc(scored, "score"), top_n) ELSE top

----------------------------------------------------------------------------
(* recommender.py: the reasoning service, the template and the cache       *)

CACHE_TTL == 4    \* _CACHE_TTL, in hours

MaxMono == 2        \* ticks of the monotonic clock
TickHours == 2      \* hours in a tick
MaxSnapshots == 2   \* snapshots committed while recommendations are asked for
MaxCalls == 2       \* calls of generate_dropshipping_recommendations

Callers == {"c1", "c2"}
TopNs == {1, 2}

\* what one element of the service's JSON array can be: an object with the
\* five fields, an object without them, or a value that is not an object
ElemKinds == {"good", "offlist", "partial", "string"}

\* what the service can answer for n products: no API key; an exception
\* inside the try (a timeout, an API error, text that is not JSON); JSON that
\* is not an array; an array of n elements of one kind; an array of well-formed
\* elements that is one too short or one too long
Responses(n) ==
    {[kind |-> k, items |-> <<>>] : k \in {"no_key", "exception", "not_list"}}
    \cup {[kind |-> "list", items |-> [i \in 1..n |-> k]] : k \in ElemKinds}
    \cup {[kind |-> "list", items |-> [i \in 1..m |-> "good"]] : m \in {n - 1, n + 1}}

\* _call_claude, lines 128-135, returning a list whatever its length
call_claude_AnyLength(resp, n) ==
    IF resp.kind = "list"
    THEN [none |-> FALSE, data |-> resp.items]
    ELSE [none |-> TRUE, data |-> <<>>]

\* _call_claude: the parsed list, or None
call_claude(resp, n) ==
    IF resp.kind = "list" /\ Len(resp.items) = n
    THEN [none |-> FALSE, data |-> resp.items]
    ELSE [none |-> TRUE, data |-> <<>>]

\* _fallback_analysis
fallback_analysis(e) ==
    [verdict |-> IF e.ds >= 60 * DsUnit THEN "Strong"
                 ELSE IF e.ds >= 40 * DsUnit THEN "Moderate"
                 ELSE "Speculative",
     strengths |-> <<"Trend shape score", "Price fit score", "Present on platform(s)">>,
     risks |-> <<"Analysis unavailable (no API key configured)",
                 "Verify margin before sourcing">>,
     strategy |-> "Research suppliers and validate margins before launching ad campaigns.",
     target_channel |-> IF e.ts.platform_count >= 3 THEN "TikTok Ads"
                        ELSE "Google Shopping"]

\* the analysis a well-formed element of the service carries
ServiceAnalysis ==
    [verdict |-> "Moderate", strengths |-> <<"s1", "s2">>, risks |-> <<"r1", "r2">>,
     strategy |-> "service strategy", target_channel |-> "Instagram Influencers"]

\* a well-formed element whose verdict is a string outside the three the
\* prompt of line 75 asks for
OffListAnalysis == [ServiceAnalysis EXCEPT !.verdict = "Avoid"]

\* lines 307-311: analysis.get(key, default) on an object without the fields
DefaultAnalysis ==
    [verdict |-> "Speculative", strengths |-> <<>>, risks |-> <<>>,
     strategy |-> "", target_channel |-> ""]

\* line 297: the element of the service is taken for candidate i
FromService(results, i) == ~results.none /\ results.data # <<>> /\ i <= Len(results.data)

\* lines 297-300 and 307-311
AnalysisOf(e, results, i) ==
    IF FromService(results, i)
    THEN (CASE results.data[i] = "good" -> ServiceAnalysis
            [] results.data[i] = "offlist" -> OffListAnalysis
            [] OTHER -> DefaultAnalysis)
    ELSE fallback_analysis(e)

\* line 307: .get on an element that is not an object raises AttributeError
BuildRaises(top, results) ==
    \E i \in DOMAIN top : FromService(results, i) /\ results.data[i] = "string"

\* lines 249-257: the last seven scores of the product, oldest first
Sparkline(pid) ==
    LET rows == SelectSeq(trendScores, LAMBDA t : t.product_id = pid)
        latest == LastN(rows, 7)
    IN [i \in DOMAIN latest |-> latest[i].score]

\* lines 295-314: the list of DropshippingRecommendation; ds_score is
\* round(ds, 1), in tenths of a point
Recommendations(top, results) ==
    [i \in DOMAIN top |->
        [product |-> top[i].product,
         trend_score_id |-> top[i].id,
         trend_score |-> top[i].ts,
         ds_score |-> RoundDiv(top[i].ds * 10, DsUnit),
         analysis |-> AnalysisOf(top[i], results, i),
         sparkline |-> Sparkline(top[i].product.id)]]

NoCache == [n \in TopNs |-> [set |-> FALSE, ts |-> 0, recs |-> <<>>]]

\* a call under way: where it stands, its top_n and its reading of the
\* clock; calls counts the calls the caller has made
IdleCall == [pc |-> "idle", calls |-> 0, top_n |-> 0, now |-> 0]

\* a call that ended: by a cache hit, with a fresh list, or by raising; its
\* top_n, the latest scores it read, the number of candidates it chose, the
\* answer of the service and the list it returned
NoReturn == [how |-> "none", top_n |-> 0, seen |-> <<>>, n |-> 0,
             resp |-> [kind |-> "", items |-> <<>>], result |-> <<>>]

\* the snapshots the scoring job commits, as score, trend-shape, price-fit,
\* sentiment, social-velocity and platform count.  Product 1: an ordinary
\* product, or one below both thresholds with high price-fit and sentiment.
\* The others: a fad with high price-fit and sentiment, or one below both
\* thresholds
SnapshotKinds(pid) ==
    IF pid = 1
    THEN { <<50 * Centi, 50 * Centi, 50 * Centi, 50 * Centi, 0, 1>>,
           <<10 * Centi, 50 * Centi, 100 * Centi, 100 * Centi, 0, 3>> }
    ELSE { <<60 * Centi, 15 * Centi, 100 * Centi, 100 * Centi, 0, 1>>,
           <<15 * Centi, 50 * Centi, 0, 0, 0, 1>> }

\* score_all_products commits a snapshot of a product
NewSnapshot ==
    /\ Len(trendScores) < MaxSnapshots
    /\ \E p \in products : \E k \in SnapshotKinds(p.id) :
         trendScores' = Append(trendScores,
                               Snapshot(p.id, k[1], k[2], k[3], k[4], k[5], k[6]))
    /\ UNCHANGED <<storeVars, now, sc, recVars, hShape, auxVars>>

\* the monotonic clock advances
Advance ==
    /\ mono < MaxMono * TickHours
    /\ mono' = mono + TickHours
    /\ UNCHANGED <<storeVars, scoreVars, cache, rc, ret, hShape, auxVars>>

\* number of calls made so far
RECURSIVE CallsOf(_)
CallsOf(cs) ==
    IF cs = {} THEN 0
    ELSE LET c == CHOOSE x \in cs : TRUE IN rc[c].calls + CallsOf(cs \ {c})

\* the callers are interchangeable: a request is served by the first
\* caller that is free
Earlier(d, c) == d = "c1" /\ c = "c2"

\* generate_dropshipping_recommendations, lines 175-183: the clock and the
\* cache are read; a live entry is returned, otherwise the call goes on to
\* _build_recommendations and is suspended at its first query
RecStart(c) ==
    /\ rc[c].pc = "idle"
    /\ CallsOf(Callers) < MaxCalls
    /\ \A d \in Callers : Earlier(d, c) => rc[d].pc # "idle"
    /\ \E top_n \in TopNs :
         LET cached == cache[top_n]
         IN IF cached.set /\ mono - cached.ts < CACHE_TTL
            THEN /\ rc' = [rc EXCEPT ![c].calls = @ + 1]
                 /\ ret' = [NoReturn EXCEPT !.how = "hit", !.top_n = top_n,
                                            !.result = cached.recs]
            ELSE /\ rc' = [rc EXCEPT ![c].calls = @ + 1, ![c].pc = "query",
                                     ![c].top_n = top_n, ![c].now = mono]
                 /\ UNCHANGED ret
    /\ UNCHANGED <<storeVars, scoreVars, mono, cache, hShape, auxVars>>

\* the call of caller c ends: it leaves r behind
Return(c, r) ==
    /\ rc' = [rc EXCEPT ![c] = [IdleCall EXCEPT !.calls = rc[c].calls]]
    /\ ret' = r

\* lines 184-185: the list is stored under top_n with the clock reading
\* taken before the computation
Store(c, recs) ==
    cache' = [cache EXCEPT ![rc[c].top_n] =
                 [set |-> TRUE, ts |-> rc[c].now, recs |-> recs]]

\* _build_recommendations, lines 193-211: no product has a score, the empty
\* list is cached and returned
RecQuery(c) ==
    /\ rc[c].pc = "query"
    /\ Scored = <<>>
    /\ Return(c, [NoReturn EXCEPT !.how = "fresh", !.top_n = rc[c].top_n])
    /\ Store(c, <<>>)
    /\ UNCHANGED <<storeVars, scoreVars, mono, hShape, auxVars>>

\* lines 193-317 and 184-185: the scores are read, the candidates chosen,
\* the service answers, the list is built, cached and returned
RecFinish(c) ==
    /\ rc[c].pc = "query"
    /\ Scored # <<>>
    /\ LET top == Top(Scored, rc[c].top_n)
       IN \E resp \in Responses(Len(top)) :
            LET results == call_claude(resp, Len(top))
                recs == Recommendations(top, results)
            IN /\ ~BuildRaises(top, results)
               /\ Return(c, [how |-> "fresh", top_n |-> rc[c].top_n,
                             seen |-> Scored, n |-> Len(top),
                             resp |-> resp, result |-> recs])
               /\ Store(c, recs)
    /\ UNCHANGED <<storeVars, scoreVars, mono, hShape, auxVars>>

\* lines 297-307: building the list raises, the call ends without a list
\* and without storing anything
RecRaise(c) ==
    /\ rc[c].pc = "query"
    /\ Scored # <<>>
    /\ LET top == Top(Scored, rc[c].top_n)
       IN \E resp \in Responses(Len(top)) :
            LET results == call_claude(resp, Len(top))
            IN /\ BuildRaises(top, results)
               /\ Return(c, [how |-> "raised", top_n |-> rc[c].top_n,
                             seen |-> Scored, n |-> Len(top),
                             resp |-> resp, result |-> <<>>])
    /\ UNCHANGED <<storeVars, scoreVars, mono, cache, hShape, auxVars>>

----------------------------------------------------------------------------
(* llm_extract.py: extract_and_filter.  A signal is its source and its     *)
(* product name; the empty name stands for None                            *)

MaxExtract == 3     \* signals handed to extract_and_filter
BatchSize == 2      \* settings.llm_extraction_batch_size

PASSTHROUGH_SOURCES == {"google_trends"}
NoName == ""

\* the signals a collector hands over
ExtractSignals ==
    {[source |-> src, product_name |-> n] :
        src \in {"google_trends", "reddit"}, n \in {"raw one", "raw two"}}

\* an element of the array the model answers: an object with a name, with a
\* null name, with a blank name, marked not relevant, with a confidence
\* that float() rejects, or not an object
ItemKinds == {"named", "null", "blank", "irrelevant", "badconf", "nondict"}

\* what comes back for a batch of n signals: client.messages.create raises,
\* the text is not JSON, the JSON is not an array, or it is an array
BatchResponses(n) ==
    {[kind |-> k, items |-> <<>>] : k \in {"raise", "not_json", "not_array"}}
    \cup {[kind |-> "list", items |-> it] : it \in [1..n -> ItemKinds]}
    \cup {[kind |-> "list", items |-> [i \in 1..m |-> "named"]] : m \in {n - 1, n + 1}}

ExtractionResult(name, relevant) == [name |-> name, relevant |-> relevant]

\* _parse_response, lines 151-165: one element of the array
ParseItem(k) ==
    IF k = "named" THEN ExtractionResult("clean name", TRUE)
    ELSE IF k = "irrelevant" THEN ExtractionResult("clean name", FALSE)
    ELSE ExtractionResult(NoName, TRUE)

\* _parse_response: float() of line 158 raises
ParseRaises(resp, count) ==
    /\ resp.kind = "list"
    /\ Len(resp.items) = count
    /\ \E i \in DOMAIN resp.items : resp.items[i] = "badconf"

\* _parse_response
parse_response(resp, count) ==
    IF resp.kind = "list" /\ Len(resp.items) = count
    THEN [i \in 1..count |-> ParseItem(resp.items[i])]
    ELSE [i \in 1..count |-> ExtractionResult(NoName, TRUE)]

\* _extract_batch: the except branch gives every signal its own name
extract_batch(resp, batch) ==
    IF resp.kind = "raise" \/ ParseRaises(resp, Len(batch))
    THEN [i \in DOMAIN batch |-> ExtractionResult(batch[i].product_name, TRUE)]
    ELSE parse_response(resp, Len(batch))

\* extract_and_filter, lines 69-74: the signals of the batch that are kept,
\* renamed
RECURSIVE Processed(_, _)
Processed(batch, results) ==
    IF batch = <<>> THEN <<>>
    ELSE LET sig == Head(batch)
             r == Head(results)
             rest == Processed(Tail(batch), Tail(results))
         IN IF ~r.relevant \/ r.name = NoName THEN rest
            ELSE <<[sig EXCEPT !.product_name = r.name]>> \o rest

IdleExtract == [pc |-> "idle", passthrough |-> <<>>, to_extract |-> <<>>,
                processed |-> <<>>, i |-> 0, log |-> <<>>, out |-> <<>>]

\* lines 43-58: without an API key the signals are returned as they are;
\* otherwise the passthrough sources are set aside
ExtractStart ==
    /\ ex.pc = "idle"
    /\ \E key \in BOOLEAN :
       \E signals \in UNION {[1..n -> ExtractSignals] : n \in 0..MaxExtract} :
         LET pass == SelectSeq(signals, LAMBDA g : g.source \in PASSTHROUGH_SOURCES)
             rest == SelectSeq(signals, LAMBDA g : g.source \notin PASSTHROUGH_SOURCES)
         IN ex' = IF ~key THEN [ex EXCEPT !.pc = "done", !.out = signals]
                  ELSE IF rest = <<>> THEN [ex EXCEPT !.pc = "done", !.out = pass]
                  ELSE [ex EXCEPT !.pc = "batch", !.passthrough = pass,
                                  !.to_extract = rest]
    /\ UNCHANGED <<storeVars, scoreVars, recVars, hShape, hFit, hDs, pl>>

\* lines 65-74: one batch goes to the model and its results are applied
ExtractBatch ==
    /\ ex.pc = "batch"
    /\ ex.i < Len(ex.to_extract)
    /\ LET batch == SubSeq(ex.to_extract, ex.i + 1,
                           Min2(ex.i + BatchSize, Len(ex.to_extract)))
       IN \E resp \in BatchResponses(Len(batch)) :
            LET kept == Processed(batch, extract_batch(resp, batch))
            IN ex' = [ex EXCEPT !.i = @ + BatchSize,
                                !.processed = @ \o kept,
                                !.log = Append(@, [batch |-> batch, resp |-> resp,
                                                   kept |-> kept])]
    /\ UNCHANGED <<storeVars, scoreVars, recVars, hShape, hFit, hDs, pl>>

\* line 81
ExtractReturn ==
    /\ ex.pc = "batch"
    /\ ex.i >= Len(ex.to_extract)
    /\ ex' = [ex EXCEPT !.pc = "done", !.out = ex.passthrough \o ex.processed]
    /\ UNCHANGED <<storeVars, scoreVars, recVars, hShape, hFit, hDs, pl>>

----------------------------------------------------------------------------
(* runner.py: run_full_pipeline                                            *)

MaxCount == 1   \* signals one collection step stores

\* the nine collection steps, in the order of lines 373-416
Steps == <<"google", "reddit", "amazon", "tiktok", "etsy", "walmart",
           "target", "shopify", "aliexpress">>

\* lines 362-370: every count starts at 0.  pc: "idle", "collect" (step idx
\* is next), "score", "returned" or "raised"; begun: the collection steps
\* called so far, in order; failed: those that raised; scorings: calls of
\* run_scoring; begunAtScoring: the collection steps called before the
\* first of them; result: the returned dict
IdlePipeline ==
    [pc |-> "idle", idx |-> 0, counts |-> [i \in 1..Len(Steps) |-> 0],
     begun |-> <<>>, failed |-> {}, scorings |-> 0, begunAtScoring |-> <<>>,
     scored |-> 0, result |-> <<>>]

\* line 360: run_full_pipeline is called
PipelineStart ==
    /\ pl.pc = "idle"
    /\ pl' = [pl EXCEPT !.pc = "collect", !.idx = 1]
    /\ UNCHANGED <<storeVars, scoreVars, recVars, hShape, hFit, ex, hDs>>

\* the statement after collection step idx: the next try, or line 418
AfterStep(idx) == IF idx = Len(Steps) THEN "score" ELSE "collect"

\* lines 372-416: the collection step returns the number of stored signals
CollectReturns(count) ==
    /\ pl.pc = "collect"
    /\ pl' = [pl EXCEPT !.pc = AfterStep(pl.idx),
                        !.idx = @ + 1,
                        !.counts[pl.idx] = count,
                        !.begun = Append(@, Steps[pl.idx])]
    /\ UNCHANGED <<storeVars, scoreVars, recVars, hShape, hFit, ex, hDs>>

\* a collection step whose exception is not caught
CollectRaises_Propagates ==
    /\ pl.pc = "collect"
    /\ pl' = [pl EXCEPT !.pc = "raised",
                        !.begun = Append(@, Steps[pl.idx]),
                        !.failed = @ \cup {pl.idx}]
    /\ UNCHANGED <<storeVars, scoreVars, recVars, hShape, hFit, ex, hDs>>

\* lines 372-416: the collection step raises an Exception; the except clause
\* logs it and the count keeps its 0
CollectRaises ==
    /\ pl.pc = "collect"
    /\ pl' = [pl EXCEPT !.pc = AfterStep(pl.idx),
                        !.idx = @ + 1,
                        !.begun = Append(@, Steps[pl.idx]),
                        !.failed = @ \cup {pl.idx}]
    /\ UNCHANGED <<storeVars, scoreVars, recVars, hShape, hFit, ex, hDs>>

\* lines 418-435: run_scoring returns and the dict of counts is returned
PipelineReturn(scored) ==
    /\ pl.pc = "score"
    /\ pl' = [pl EXCEPT !.pc = "returned",
                        !.scorings = @ + 1,
                        !.begunAtScoring = pl.begun,
                        !.scored = scored,
                        !.result = pl.counts]
    /\ UNCHANGED <<storeVars, scoreVars, recVars, hShape, hFit, ex, hDs>>

\* line 418: run_scoring raises, outside any try: the call raises
PipelineRaises ==
    /\ pl.pc = "score"
    /\ pl' = [pl EXCEPT !.pc = "raised",
                        !.scorings = @ + 1,
                        !.begunAtScoring = pl.begun]
    /\ UNCHANGED <<storeVars, scoreVars, recVars, hShape, hFit, ex, hDs>>

----------------------------------------------------------------------------
(* Initial states                                                          *)

InitStore ==
    /\ collected = 0
    /\ products = {}
    /\ aliases = <<>>
    /\ rawSignals = <<>>
    /\ nextId = 1
    /\ sess = [j \in Jobs |-> IdleSession]
    /\ priceHistory = <<>>
    /\ enr = IdleEnrichment
    /\ log = <<>>
    /\ last = NoCall
    /\ raised = FALSE

----------------------------------------------------------------------------
(* Harness for normalize_product_name                                      *)

MaxPieces == 3    \* pieces concatenated into one raw name

Pieces == { <<"T","h","e"," ">>, <<"a"," ">>, <<"e","b","a","y"," ">>,
            <<"x">>, <<"!"," ">>, <<"-">>, <<" ">> }

NormInputs ==
    {Flatten(ps) : ps \in UNION {[1..n -> Pieces] : n \in 0..MaxPieces}}

NormIdle == nPc = "off" /\ nRaw = <<>> /\ nOnce = <<>> /\ nTwice = <<>>

\* no scoring run has started
ScoreIdle == now = 0 /\ trendScores = <<>> /\ sc = IdleScoring

\* no snapshot was recorded for _compute_ds_score
NoDs == [pc |-> "draw", platform_score |-> NULL, ds |-> NULL]

\* _compute_trend_shape was not called
NoShape == [product_id |-> 0, shape |-> NULL]

\* the other harnesses are off
AuxIdle == hFit = NULL /\ ex = IdleExtract /\ hDs = NoDs /\ pl = IdlePipeline

\* no recommendation was asked for, and the harnesses are off
RecIdle == mono = 0 /\ cache = NoCache /\ rc = [c \in Callers |-> IdleCall]
           /\ ret = NoReturn /\ hShape = NoShape /\ AuxIdle

\* name = normalize_product_name(raw)
NormalizeOnce ==
    /\ nPc = "raw"
    /\ nOnce' = normalize_product_name(nRaw)
    /\ nPc' = "once"
    /\ UNCHANGED <<nRaw, nTwice>>

\* the stored canonical name is normalised again when it comes back as input
NormalizeTwice ==
    /\ nPc = "once"
    /\ nTwice' = normalize_product_name(nOnce)
    /\ nPc' = "twice"
    /\ UNCHANGED <<nRaw, nOnce>>

InitNorm ==
    /\ nPc = "raw"
    /\ nRaw \in NormInputs
    /\ nOnce = <<>>
    /\ nTwice = <<>>
    /\ InitStore
    /\ serial = TRUE
    /\ ScoreIdle
    /\ RecIdle

NextNorm ==
    \/ NormalizeOnce /\ UNCHANGED <<storeVars, scoreVars, recVars, hShape, auxVars>>
    \/ NormalizeTwice /\ UNCHANGED <<storeVars, scoreVars, recVars, hShape, auxVars>>

SpecNorm == InitNorm /\ [][NextNorm]_vars

----------------------------------------------------------------------------
(* Specifications of the resolver                                          *)

NextStore ==
    \/ \E j \in Jobs : NextSignal(j) /\ UNCHANGED <<normVars, scoreVars, recVars, hShape, auxVars>>
    \/ \E j \in Jobs : ExactMatch(j) /\ UNCHANGED <<normVars, scoreVars, recVars, hShape, auxVars>>
    \/ \E j \in Jobs : AliasMatch(j) /\ UNCHANGED <<normVars, scoreVars, recVars, hShape, auxVars>>
    \/ \E j \in Jobs : FuzzyOrCreate(j) /\ UNCHANGED <<normVars, scoreVars, recVars, hShape, auxVars>>
    \/ \E j \in Jobs : CommitStore(j) /\ UNCHANGED <<normVars, scoreVars, recVars, hShape, auxVars>>

\* collection jobs overlap, as the scheduler runs them
Init == InitStore /\ serial = FALSE /\ NormIdle /\ ScoreIdle /\ RecIdle
Spec == Init /\ [][NextStore]_vars

\* collection jobs run one after the other, as run_full_pipeline runs them
InitSeq == InitStore /\ serial = TRUE /\ NormIdle /\ ScoreIdle /\ RecIdle
SpecSeq == InitSeq /\ [][NextStore]_vars

\* collection jobs run one after the other on a store that holds one product,
\* as an earlier run that resolved 'Ab cd' left it
InitStable ==
    /\ collected = 0
    /\ products = {NewProduct(1, normalize_product_name(Str_Ab_cd))}
    /\ aliases = <<NewAlias(1, normalize_product_name(Str_Ab_cd), "google_trends")>>
    /\ rawSignals = <<[product_id |-> 1, source |-> "google_trends",
                       product_name |-> Str_Ab_cd]>>
    /\ nextId = 2
    /\ sess = [j \in Jobs |-> IdleSession]
    /\ priceHistory = <<>>
    /\ enr = IdleEnrichment
    /\ log = <<>>
    /\ last = NoCall
    /\ raised = FALSE
    /\ serial = TRUE
    /\ NormIdle
    /\ ScoreIdle
    /\ RecIdle
SpecStable == InitStable /\ [][NextStore]_vars

\* the collection jobs that record prices, and the price enrichment job
InitPrice ==
    /\ collected = 0
    /\ products = {}
    /\ aliases = <<>>
    /\ rawSignals = <<>>
    /\ nextId = 1
    /\ sess = [j \in PriceJobs |-> IdleSession]
    /\ priceHistory = <<>>
    /\ enr = IdleEnrichment
    /\ log = <<>>
    /\ last = NoCall
    /\ raised = FALSE
    /\ serial = FALSE
    /\ NormIdle
    /\ ScoreIdle
    /\ RecIdle

NextPrice ==
    \/ \E j \in PriceJobs : NextSignal(j) /\ UNCHANGED <<normVars, scoreVars, recVars, hShape, auxVars>>
    \/ \E j \in PriceJobs : ExactMatch(j) /\ UNCHANGED <<normVars, scoreVars, recVars, hShape, auxVars>>
    \/ \E j \in PriceJobs : AliasMatch(j) /\ UNCHANGED <<normVars, scoreVars, recVars, hShape, auxVars>>
    \/ \E j \in PriceJobs : FuzzyOrCreate(j) /\ UNCHANGED <<normVars, scoreVars, recVars, hShape, auxVars>>
    \/ \E j \in PriceJobs : CommitStore(j) /\ UNCHANGED <<normVars, scoreVars, recVars, hShape, auxVars>>
    \/ \E j \in PriceJobs : RecordPrice(j) /\ UNCHANGED <<normVars, scoreVars, recVars, hShape, auxVars>>
    \/ \E j \in PriceJobs : CommitPrices(j) /\ UNCHANGED <<normVars, scoreVars, recVars, hShape, auxVars>>
    \/ \E j \in PriceJobs : EnrichUrl(j) /\ UNCHANGED <<normVars, scoreVars, recVars, hShape, auxVars>>
    \/ \E j \in PriceJobs : CommitUrls(j) /\ UNCHANGED <<normVars, scoreVars, recVars, hShape, auxVars>>
    \/ EnrichStart /\ UNCHANGED <<normVars, scoreVars, recVars, hShape, auxVars>>
    \/ EnrichFetch /\ UNCHANGED <<normVars, scoreVars, recVars, hShape, auxVars>>
    \/ EnrichGet /\ UNCHANGED <<normVars, scoreVars, recVars, hShape, auxVars>>
    \/ EnrichCommit /\ UNCHANGED <<normVars, scoreVars, recVars, hShape, auxVars>>
    \/ EnrichDone /\ UNCHANGED <<normVars, scoreVars, recVars, hShape, auxVars>>

SpecPrice == InitPrice /\ [][NextPrice]_vars

\* two products without signals or snapshots; the scoring job and the
\* collectors run side by side
InitScore ==
    /\ \E f \in [1..Len(ScoredNames) -> PricePairs] :
         products = {[NewProduct(i, ScoredNames[i]) EXCEPT
                         !.price_low = f[i][1], !.price_high = f[i][2]] :
                     i \in 1..Len(ScoredNames)}
    /\ nextId = Len(ScoredNames) + 1
    /\ collected = 0
    /\ aliases = <<>>
    /\ rawSignals = <<>>
    /\ sess = [j \in Jobs |-> IdleSession]
    /\ priceHistory = <<>>
    /\ enr = IdleEnrichment
    /\ log = <<>>
    /\ last = NoCall
    /\ raised = FALSE
    /\ serial = FALSE
    /\ NormIdle
    /\ ScoreIdle
    /\ RecIdle

NextScore ==
    \/ StoreSignal /\ UNCHANGED <<normVars, recVars, hShape, auxVars>>
    \/ Tick /\ UNCHANGED <<normVars, recVars, hShape, auxVars>>
    \/ ScoreStart /\ UNCHANGED <<normVars, recVars, hShape, auxVars>>
    \/ ScoreOne /\ UNCHANGED <<normVars, recVars, hShape, auxVars>>
    \/ ScoreRaise /\ UNCHANGED <<normVars, recVars, hShape, auxVars>>
    \/ ScoreCommit /\ UNCHANGED <<normVars, recVars, hShape, auxVars>>

SpecScore == InitScore /\ [][NextScore]_vars

\* two products without snapshots; the scoring job commits snapshots while
\* the callers ask for recommendations
InitRec ==
    /\ products = {NewProduct(i, ScoredNames[i]) : i \in 1..Len(ScoredNames)}
    /\ nextId = Len(ScoredNames) + 1
    /\ collected = 0
    /\ aliases = <<>>
    /\ rawSignals = <<>>
    /\ sess = [j \in Jobs |-> IdleSession]
    /\ priceHistory = <<>>
    /\ enr = IdleEnrichment
    /\ log = <<>>
    /\ last = NoCall
    /\ raised = FALSE
    /\ serial = FALSE
    /\ NormIdle
    /\ ScoreIdle
    /\ RecIdle

NextRec ==
    \/ NewSnapshot /\ UNCHANGED normVars
    \/ Advance /\ UNCHANGED normVars
    \/ \E c \in Callers : RecStart(c) /\ UNCHANGED normVars
    \/ \E c \in Callers : RecQuery(c) /\ UNCHANGED normVars
    \/ \E c \in Callers : RecFinish(c) /\ UNCHANGED normVars
    \/ \E c \in Callers : RecRaise(c) /\ UNCHANGED normVars

SpecRec == InitRec /\ [][NextRec]_vars

----------------------------------------------------------------------------
(* Harness for _compute_trend_shape: the score history is drawn at the     *)
(* start, then the function is called for a product                        *)

MaxHist == 4        \* snapshots in the store

\* the scores of the first product's snapshots, and the score of the others'
HistScores == {0, 15 * Centi, 20 * Centi, 30 * Centi, 40 * Centi}
OtherScore == 40 * Centi

\* the rows of trend_scores: product and score, the other columns at zero
HistRows ==
    {Snapshot(p.id, v, 0, 0, 0, 0, 0) :
        p \in {q \in products : q.id = 1}, v \in HistScores}
    \cup {Snapshot(p.id, OtherScore, 0, 0, 0, 0, 0) :
        p \in {q \in products : q.id # 1}}

InitShape ==
    /\ products = {NewProduct(i, ScoredNames[i]) : i \in 1..Len(ScoredNames)}
    /\ nextId = Len(ScoredNames) + 1
    /\ collected = 0
    /\ aliases = <<>>
    /\ rawSignals = <<>>
    /\ sess = [j \in Jobs |-> IdleSession]
    /\ priceHistory = <<>>
    /\ enr = IdleEnrichment
    /\ log = <<>>
    /\ last = NoCall
    /\ raised = FALSE
    /\ serial = FALSE
    /\ NormIdle
    /\ now = 0
    /\ sc = IdleScoring
    /\ trendScores \in UNION {[1..n -> HistRows] : n \in 0..MaxHist}
    /\ RecIdle

\* line 303: trend_shape = await _compute_trend_shape(session, product.id)
ShapeOf(p) ==
    /\ hShape = NoShape
    /\ hShape' = [product_id |-> p.id, shape |-> trend_shape(History(p.id))]
    /\ UNCHANGED <<storeVars, scoreVars, recVars, auxVars>>

NextShape ==
    \/ \E p \in products : ShapeOf(p) /\ UNCHANGED normVars

SpecShape == InitShape /\ [][NextShape]_vars

----------------------------------------------------------------------------
(* Harness for _compute_price_fit: a product is drawn with its price       *)
(* bounds, in whole dollars, then the function is called for it            *)

\* prices around every breakpoint of the curve, and the unset price
FitPrices == {0, 5, 9, 10, 11, 19, 20, 21, 40, 59, 60, 61, 70, 79, 80, 81,
              115, 149, 150, 151, 200}

InitFit ==
    /\ \E low \in FitPrices \cup {NULL}, high \in FitPrices \cup {NULL} :
         products = {[NewProduct(1, ScoredNames[1]) EXCEPT !.price_low = low,
                                                           !.price_high = high]}
    /\ nextId = 2
    /\ collected = 0
    /\ aliases = <<>>
    /\ rawSignals = <<>>
    /\ sess = [j \in Jobs |-> IdleSession]
    /\ priceHistory = <<>>
    /\ enr = IdleEnrichment
    /\ log = <<>>
    /\ last = NoCall
    /\ raised = FALSE
    /\ serial = FALSE
    /\ NormIdle
    /\ ScoreIdle
    /\ RecIdle

\* score_product, line 301: price_fit = _compute_price_fit(product)
FitOf(p) ==
    /\ hFit = NULL
    /\ hFit' = price_fit(p)
    /\ UNCHANGED <<storeVars, scoreVars, recVars, hShape, ex, hDs, pl>>

NextFit ==
    \/ \E p \in products : FitOf(p) /\ UNCHANGED normVars

SpecFit == InitFit /\ [][NextFit]_vars

----------------------------------------------------------------------------
(* Specification of extract_and_filter                                     *)

InitExtract == InitStore /\ serial = FALSE /\ NormIdle /\ ScoreIdle /\ RecIdle

NextExtract ==
    \/ ExtractStart /\ UNCHANGED normVars
    \/ ExtractBatch /\ UNCHANGED normVars
    \/ ExtractReturn /\ UNCHANGED normVars

SpecExtract == InitExtract /\ [][NextExtract]_vars

----------------------------------------------------------------------------
(* Harness for _compute_ds_score: a product is drawn with its price, its   *)
(* history and signals of some of the sources; score_product records its   *)
(* snapshot and the recommender computes the composite of that snapshot    *)

\* source_name of the collectors
SOURCES == {"google_trends", "reddit", "amazon", "tiktok", "etsy", "walmart",
            "target", "shopify", "aliexpress"}

\* one signal of each collector: type, value, metadata; the reddit post and
\* the tiktok video are widely shared ones
SourceSignal(source) ==
    CASE source = "google_trends" ->
           [signal_type |-> "search_velocity", value |-> 5000, meta |-> NoMetadata]
      [] source = "reddit" ->
           [signal_type |-> "upvote_velocity", value |-> 120,
            meta |-> [NoMetadata EXCEPT !.title = Text_buy, !.num_comments = 10000]]
      [] source = "amazon" ->
           [signal_type |-> "bsr_momentum", value |-> 900, meta |-> NoMetadata]
      [] source = "tiktok" ->
           [signal_type |-> "tiktok_popularity", value |-> 10000,
            meta |-> [NoMetadata EXCEPT !.play_count = 10000000,
                                        !.like_count = 1000000,
                                        !.share_count = 100000,
                                        !.comment_count = 50000,
                                        !.author = "ann", !.body = Text_nice]]
      [] source = "etsy" ->
           [signal_type |-> "etsy_trending", value |-> 50000, meta |-> NoMetadata]
      [] source = "walmart" ->
           [signal_type |-> "walmart_bestseller", value |-> 250, meta |-> NoMetadata]
      [] source = "target" ->
           [signal_type |-> "target_trending", value |-> 80, meta |-> NoMetadata]
      [] source = "shopify" ->
           [signal_type |-> "shopify_bestseller", value |-> 1, meta |-> NoMetadata]
      [] source = "aliexpress" ->
           [signal_type |-> "aliexpress_hot_product", value |-> 1, meta |-> NoMetadata]

\* the signals of product 1, one of each source of S
RECURSIVE SignalsFrom(_)
SignalsFrom(S) ==
    IF S = {} THEN <<>>
    ELSE LET source == CHOOSE x \in S : TRUE
             k == SourceSignal(source)
         IN <<[product_id |-> 1, source |-> source, signal_type |-> k.signal_type,
               value |-> k.value, collected_at |-> 0, meta |-> k.meta]>>
            \o SignalsFrom(S \ {source})

\* price bounds of the product: unset, or both at the peak of the curve
DsPrices == { <<NULL, NULL>>, <<40, 40>> }

\* earlier snapshots of the product: none, or three with a steady rise
DsHistories ==
    { <<>>,
      <<Snapshot(1, 10 * Centi, 0, 0, 0, 0, 0), Snapshot(1, 20 * Centi, 0, 0, 0, 0, 0),
        Snapshot(1, 30 * Centi, 0, 0, 0, 0, 0)>> }

InitDs ==
    /\ \E pr \in DsPrices :
         products = {[NewProduct(1, ScoredNames[1]) EXCEPT !.price_low = pr[1],
                                                           !.price_high = pr[2]]}
    /\ nextId = 2
    /\ collected = 0
    /\ aliases = <<>>
    /\ \E S \in SUBSET SOURCES : rawSignals = SignalsFrom(S)
    /\ sess = [j \in Jobs |-> IdleSession]
    /\ priceHistory = <<>>
    /\ enr = IdleEnrichment
    /\ log = <<>>
    /\ last = NoCall
    /\ raised = FALSE
    /\ serial = FALSE
    /\ NormIdle
    /\ now = 0
    /\ sc = IdleScoring
    /\ trendScores \in DsHistories
    /\ RecIdle

\* score_all_products: score_product records the snapshot of the product
DsScore(p) ==
    /\ hDs.pc = "draw"
    /\ LET signals == Window(p.id)
       IN /\ ~IntentRaises(signals)
          /\ \E sentiment_score \in Sentiments(signals) :
               trendScores' = Append(trendScores,
                                     score_product(p, signals, sentiment_score))
    /\ hDs' = [hDs EXCEPT !.pc = "scored"]
    /\ UNCHANGED <<storeVars, now, sc, recVars, hShape, hFit, ex, pl>>

\* recommender.py line 211: ds = _compute_ds_score(ts) for the latest snapshot
DsOf ==
    /\ hDs.pc = "scored"
    /\ LET ts == trendScores[Len(trendScores)]
       IN hDs' = [pc |-> "done", platform_score |-> platform_score(ts),
                  ds |-> compute_ds_score(ts)]
    /\ UNCHANGED <<storeVars, scoreVars, recVars, hShape, hFit, ex, pl>>

NextDs ==
    \/ \E p \in products : DsScore(p) /\ UNCHANGED normVars
    \/ DsOf /\ UNCHANGED normVars

SpecDs == InitDs /\ [][NextDs]_vars

----------------------------------------------------------------------------
(* run_full_pipeline on its own: every collection step returns a count or   *)
(* raises, and so does the scoring step                                    *)

InitPipeline == InitStore /\ serial = FALSE /\ NormIdle /\ ScoreIdle /\ RecIdle

NextPipeline ==
    \/ PipelineStart /\ UNCHANGED normVars
    \/ \E count \in 0..MaxCount : CollectReturns(count) /\ UNCHANGED normVars
    \/ CollectRaises /\ UNCHANGED normVars
    \/ \E scored \in 0..MaxCount : PipelineReturn(scored) /\ UNCHANGED normVars
    \/ PipelineRaises /\ UNCHANGED normVars

SpecPipeline == InitPipeline /\ [][NextPipeline]_vars

----------------------------------------------------------------------------
(* Properties of the resolver and the normalizer                           *)

\* every product row, committed or flushed by an open session
AllProducts == products \cup UNION {sess[j].pendP : j \in DOMAIN sess}

\* C1: no two products of the store share a canonical name, however the
\* collection jobs' resolutions interleave
C1_UniqueCanonicalName ==
    \A p, q \in products : p.canonical_name = q.canonical_name => p.id = q.id

\* C2: every find_or_create_product call returns a product of the store; none
\* raises, whatever resolutions came before or ran alongside
C2_ResolveReturnsProduct ==
    last.how # "none" =>
        /\ last.how # "raise"
        /\ \E p \in AllProducts : p.id = last.pid

\* C3: normalising a normalised name changes nothing
C3_NormalizeIdempotent == nPc = "twice" => nTwice = nOnce

\* C4: from the empty store, two names with the same normalised form coming
\* from two sources resolve to the same product, and the store then holds
\* exactly one product
C4_SameNormalizedSameProduct ==
    ( /\ Len(log) = 2
      /\ log[1].job # log[2].job
      /\ normalize_product_name(log[1].raw) = normalize_product_name(log[2].raw) )
    => /\ log[1].pid = log[2].pid
       /\ log[1].pid # 0
       /\ collected = 2 => Cardinality(AllProducts) = 1

C4_Witness ==
    /\ Len(log) = 2
    /\ collected = 2
    /\ log[1].job # log[2].job
    /\ log[1].raw # log[2].raw
    /\ normalize_product_name(log[1].raw) = normalize_product_name(log[2].raw)
    /\ log[2].how = "exact"
    /\ log[1].pid = log[2].pid

\* the names session j can see, each with the product that owns it
KnownNames(j) ==
    {[pid |-> p.id, name |-> p.canonical_name] : p \in VisibleProducts(j)}
    \cup {[pid |-> a.product_id, name |-> a.alias_name] :
            a \in Range(VisibleAliases(j))}

TopScore(n, names) ==
    IF names = {} THEN 0
    ELSE LET scores == {token_sort_ratio(n, x.name) : x \in names}
         IN CHOOSE m \in scores : \A k \in scores : k <= m

C5_Step(j) ==
    LET n == normalize_product_name(sess[j].cur.product_name)
        names == KnownNames(j)
        top == TopScore(n, names)
    IN ( /\ sess[j].pc = "fuzzy"
         /\ sess'[j].pc # "fuzzy"
         /\ \A x \in names : x.name # n )
       => IF top >= 80
          THEN /\ sess'[j].pendP = sess[j].pendP
               /\ nextId' = nextId
               /\ \E x \in names : /\ x.pid = last'.pid
                                    /\ token_sort_ratio(n, x.name) = top
               /\ sess'[j].pendA =
                     Append(sess[j].pendA, [product_id |-> last'.pid,
                                            alias_name |-> n, source |-> j])
          ELSE \E p \in sess'[j].pendP :
                 /\ sess'[j].pendP \ {p} = sess[j].pendP
                 /\ \A q \in AllProducts : q.id # p.id
                 /\ p.canonical_name = n
                 /\ last'.pid = p.id
                 /\ sess'[j].pendA =
                       Append(sess[j].pendA, [product_id |-> p.id,
                                              alias_name |-> n, source |-> j])

\* C5: without an exact match, a best similarity of at least 80 makes the
\* name a source-tagged alias of a best-matching product and creates nothing;
\* a lower one creates exactly one product named by the normalised name, with
\* that name as its first alias
C5_FuzzyAliasOrCreate == [][\A j \in Jobs : C5_Step(j)]_vars

C5_Witness ==
    /\ last.how = "fuzzy"
    /\ Cardinality(AllProducts) >= 2
    /\ \E j \in Jobs : \E i \in DOMAIN sess[j].pendA :
         /\ sess[j].pendA[i].product_id = last.pid
         /\ sess[j].pendA[i].alias_name = normalize_product_name(last.raw)

\* C6: the price bounds of a product only widen: a set price_low never goes
\* up, a set price_high never goes down, and price_low <= price_high, also
\* when the enrichment job and collection jobs write through their own sessions
C6_Step ==
    \A p \in products : \A q \in products' :
        p.id = q.id =>
            /\ p.price_low # NULL => (q.price_low # NULL /\ q.price_low <= p.price_low)
            /\ p.price_high # NULL => (q.price_high # NULL /\ q.price_high >= p.price_high)
            /\ (q.price_low # NULL /\ q.price_high # NULL) => q.price_low <= q.price_high

C6_PriceBoundsOnlyWiden == [][C6_Step]_vars

----------------------------------------------------------------------------
(* Properties of the scorer                                                *)

InRange(x) == 0 <= x /\ x <= 100 * Centi

\* C7: the composite score written in every TrendScore snapshot lies in
\* [0,100], whatever the sign or size of the signal values in the window
C7_CompositeInRange ==
    \A i \in DOMAIN trendScores : InRange(trendScores[i].score)

\* the values the seven component scorers returned for a snapshot
Components(t) ==
    {t.search_accel, t.social_velocity, t.amazon_accel, t.price_fit,
     t.trend_shape, t.purchase_intent, t.recency}

\* C8: every component scorer returns a value in [0,100] for every signal
\* set, whatever the sign or size of the signal values
C8_ComponentsInRange ==
    \A t \in Range(trendScores \o sc.pend) : \A c \in Components(t) : InRange(c)

\* a step that ends a scoring run, and the snapshots it persisted
RunEnds == sc.pc = "loop" /\ sc'.pc = "idle"
Persisted == SubSeq(trendScores', Len(trendScores) + 1, Len(trendScores'))

\* C9: when scoring one product raises, every other product of the same
\* run still gets its new snapshot persisted
C9_Step ==
    (RunEnds /\ sc.idx <= Len(sc.products)) =>
        \A i \in DOMAIN sc.products :
            i # sc.idx =>
                \E k \in DOMAIN Persisted : Persisted[k].product_id = sc.products[i].id
C9_FailureIsolated == [][C9_Step]_vars

\* C10: the score history is append-only: scoring a product adds exactly one
\* snapshot for it, no stored snapshot ever changes, and a run persists
\* exactly one snapshot for each product that had a signal and none for others
C10_Step ==
    /\ Len(trendScores') >= Len(trendScores)
    /\ SubSeq(trendScores', 1, Len(trendScores)) = trendScores
    /\ (sc.pc = "loop" /\ sc'.pc = "loop" /\ sc' # sc) =>
           /\ Len(sc'.pend) = Len(sc.pend) + 1
           /\ SubSeq(sc'.pend, 1, Len(sc.pend)) = sc.pend
           /\ sc'.pend[Len(sc'.pend)].product_id = sc.products[sc.idx].id
    /\ RunEnds =>
           \A p \in products :
               Len(SelectSeq(Persisted, LAMBDA t : t.product_id = p.id))
                   = IF \E i \in DOMAIN sc.products : sc.products[i].id = p.id
                     THEN 1 ELSE 0
C10_HistoryAppendOnly == [][C10_Step]_vars

----------------------------------------------------------------------------
(* Properties of the recommender                                           *)

\* a step on which caller c enters generate_dropshipping_recommendations,
\* a step on which its fresh computation ends, and the top_n of the call
Enters(c) == rc[c].pc = "idle" /\ rc'[c].calls = rc[c].calls + 1
Leaves(c) == rc[c].pc = "query" /\ rc'[c].pc = "idle"
Asked(c) == IF rc'[c].pc = "query" THEN rc'[c].top_n ELSE ret'.top_n

\* the entry of top_n is younger than four hours
Live(top_n) == cache[top_n].set /\ mono - cache[top_n].ts < CACHE_TTL

\* C11: a call for a top_n whose entry is younger than 4 hours on the
\* monotonic clock returns the cached list and neither computes nor touches
\* the cache; a call at or after expiry computes afresh, and its computation
\* replaces the entry by the list it returns
C11_Step ==
    \A c \in Callers :
        /\ Enters(c) =>
               IF Live(Asked(c))
               THEN /\ rc'[c].pc = "idle"
                    /\ ret'.how = "hit"
                    /\ ret'.result = cache[Asked(c)].recs
                    /\ cache' = cache
               ELSE rc'[c].pc = "query" /\ rc'[c].now = mono
        /\ Leaves(c) =>
               /\ ret'.how = "fresh"
               /\ cache'[rc[c].top_n] =
                      [set |-> TRUE, ts |-> rc[c].now, recs |-> ret'.result]
C11_CacheRespectsTTL == [][C11_Step]_vars

\* C12: of the calls for one top_n that overlap on a cache miss, at most one
\* is recomputing the entry at any time
C12_OneRecomputePerKey ==
    \A c, d \in Callers :
        (c # d /\ rc[c].pc = "query" /\ rc[d].pc = "query")
            => rc[c].top_n # rc[d].top_n

\* C13: a call that returns a list while at least one product has a score
\* snapshot returns a non-empty list
C13_Step ==
    \A c \in Callers :
        ((Enters(c) \/ Leaves(c)) /\ rc'[c].pc = "idle" /\ ret'.how # "raised"
            /\ trendScores # <<>>)
            => ret'.result # <<>>
C13_NeverEmptyWhenScored == [][C13_Step]_vars

\* the last call computed a fresh list; the products it read that pass the
\* strict filter, and those that pass the relaxed one
Fresh == ret.how = "fresh"
Computed == ret.how \in {"fresh", "raised"}
PassStrict == {i \in DOMAIN ret.seen : /\ ret.seen[i].ts.score >= 30 * Centi
                                       /\ ret.seen[i].ts.trend_shape > 15 * Centi}
PassRelaxed == {i \in DOMAIN ret.seen : ret.seen[i].ts.score >= 20 * Centi}
Listed == {ret.result[i].product.id : i \in DOMAIN ret.result}

\* C14: when at least top_n products pass the strict filter, every entry of
\* a freshly computed list has score >= 30 and trend-shape > 15, so none has
\* the fad value 15
C14_StrictFilterExcludesFads ==
    (Fresh /\ Cardinality(PassStrict) >= ret.top_n) =>
        \A i \in DOMAIN ret.result :
            /\ ret.result[i].trend_score.score >= 30 * Centi
            /\ ret.result[i].trend_score.trend_shape > 15 * Centi

\* a fad that outranks every listed product was read and left out
C14_Witness ==
    /\ Fresh
    /\ Cardinality(PassStrict) >= ret.top_n
    /\ ret.result # <<>>
    /\ \E i \in DOMAIN ret.seen :
         /\ ret.seen[i].ts.trend_shape = 15 * Centi
         /\ ret.seen[i].ts.score >= 30 * Centi
         /\ ret.seen[i].product.id \notin Listed
         /\ \A k \in DOMAIN ret.result :
              ret.seen[i].ds > compute_ds_score(ret.result[k].trend_score)

\* C15: when fewer than top_n products pass the strict filter, the candidates
\* are the products with score >= 20 whatever their trend-shape: if there is
\* one, the list holds the top_n of them by suitability and nothing else;
\* only when there is none does the list come from the unfiltered fallback
C15_RelaxedFilter ==
    (Fresh /\ Cardinality(PassStrict) < ret.top_n) =>
        IF PassRelaxed # {}
        THEN /\ \A i \in DOMAIN ret.result :
                  ret.result[i].trend_score.score >= 20 * Centi
             /\ Len(ret.result) = Min2(ret.top_n, Cardinality(PassRelaxed))
             /\ \A i \in PassRelaxed :
                  ret.seen[i].product.id \notin Listed =>
                      \A k \in DOMAIN ret.result :
                          compute_ds_score(ret.result[k].trend_score) >= ret.seen[i].ds
        ELSE Len(ret.result) = Min2(ret.top_n, Len(ret.seen))

\* a fad is listed by the relaxed filter while a product below 20 is left out
C15_Witness ==
    /\ Fresh
    /\ Cardinality(PassStrict) < ret.top_n
    /\ Len(ret.result) < ret.top_n
    /\ \E k \in DOMAIN ret.result : ret.result[k].trend_score.trend_shape = 15 * Centi
    /\ \E i \in DOMAIN ret.seen : ret.seen[i].ts.score < 20 * Centi

\* C16: a list has at most top_n entries, lists no product twice and is in
\* descending order of suitability, whichever tier produced it
C16_OrderedBySuitability ==
    Fresh =>
        /\ Len(ret.result) <= ret.top_n
        /\ \A i, k \in DOMAIN ret.result :
             i < k => /\ ret.result[i].product.id # ret.result[k].product.id
                      /\ ret.result[i].ds_score >= ret.result[k].ds_score

\* the analysis of an entry is the template of _fallback_analysis
IsTemplate(r) ==
    r.analysis = fallback_analysis([ts |-> r.trend_score,
                                    ds |-> compute_ds_score(r.trend_score)])

\* the call returned one entry per candidate, each with the template
AllTemplate ==
    /\ Fresh
    /\ Len(ret.result) = ret.n
    /\ \A i \in DOMAIN ret.result : IsTemplate(ret.result[i])

\* C17: when the service answers a list whose length is not the number of
\* candidates, every candidate gets the template and the list is returned
C17_WrongLengthUsesTemplate ==
    (Computed /\ ret.resp.kind = "list" /\ Len(ret.resp.items) # ret.n)
        => AllTemplate

\* two candidates, and a list of three well-formed elements
C17_Witness ==
    /\ Fresh
    /\ ret.n = 2
    /\ ret.resp.kind = "list"
    /\ Len(ret.resp.items) = 3
    /\ Len(ret.result) = 2

\* the service failed: an exception (timeout, text that is not JSON), an
\* answer that is not a list, or a list with a malformed element
Failed(resp) ==
    \/ resp.kind \in {"exception", "not_list"}
    \/ /\ resp.kind = "list"
       /\ \E i \in DOMAIN resp.items : resp.items[i] \in {"partial", "string"}

\* C18: whatever way the service fails, every candidate gets the template
\* and the call returns the full list
C18_FailureDegradesToTemplate ==
    (Computed /\ Failed(ret.resp)) => AllTemplate

\* the verdicts of the Recommendation type, recommender.py line 44
Verdicts == {"Strong", "Moderate", "Speculative"}

\* C26: every Recommendation a call of recommend returns has one of the three
\* verdicts, from the service or from the template
C26_VerdictInRange ==
    Fresh => \A i \in DOMAIN ret.result : ret.result[i].analysis.verdict \in Verdicts

----------------------------------------------------------------------------
(* Properties of _compute_trend_shape                                      *)

\* the stored scores of the product the function was called for, oldest
\* first, and their consecutive differences
StoredScores ==
    LET rows == SelectSeq(trendScores, LAMBDA t : t.product_id = hShape.product_id)
    IN [i \in DOMAIN rows |-> rows[i].score]
Delta(i) == StoredScores[i + 1] - StoredScores[i]

\* C19: for a history of 3 to 10 snapshots in which a rise of more than 15
\* points is immediately followed by a fall of more than 10 points,
\* trend-shape is exactly 15 whatever the mean and the other differences
C19_FadTakesPriority ==
    ( /\ hShape # NoShape
      /\ Len(StoredScores) \in 3..10
      /\ \E i \in 1..(Len(StoredScores) - 2) :
           Delta(i) > 15 * Centi /\ Delta(i + 1) < -10 * Centi )
    => hShape.shape = 15 * Centi

\* the scores 20, 40, 15: a fad whose mean difference is below -2
C19_Witness ==
    /\ hShape # NoShape
    /\ StoredScores = <<20 * Centi, 40 * Centi, 15 * Centi>>
    /\ hShape.shape = 15 * Centi

\* C20: trend-shape is exactly 50 when the product has fewer than 3 stored
\* snapshots, whatever their scores
C20_ShortHistoryNeutral ==
    (hShape # NoShape /\ Len(StoredScores) < 3) => hShape.shape = 50 * Centi

\* two snapshots of the product among those in the store, whose scores taken
\* together would read as a fad
C20_Witness ==
    /\ hShape # NoShape
    /\ Len(StoredScores) = 2
    /\ Len(trendScores) >= 3
    /\ trendScores[2].score - trendScores[1].score > 15 * Centi
    /\ trendScores[3].score - trendScores[2].score < -10 * Centi
    /\ hShape.shape = 50 * Centi

----------------------------------------------------------------------------
(* Properties of _compute_price_fit                                        *)

\* the price midpoint of the product the function was called for, in
\* hundredths of a dollar: the mean of the known bounds
Known(p) == p.price_low # NULL \/ p.price_high # NULL
Midpoint(p) ==
    IF p.price_low # NULL /\ p.price_high # NULL
    THEN (p.price_low + p.price_high) * (Centi \div 2)
    ELSE IF p.price_low # NULL THEN p.price_low * Centi
    ELSE p.price_high * Centi

\* x lies between a and b dollars, both included
Between(x, a, b) == a * Centi <= x /\ x <= b * Centi

\* C21: price-fit is 50 without a known bound; on the midpoint m it is 100
\* on [20,60], 50 + 5(m - 10) on [10,20], 100 - 2.5(m - 60) on [60,80], 5m on
\* [0,10], 50 - (m - 80)50/70 on [80,150] (to the nearest hundredth) and 0
\* above 150; the closed intervals share their ends, so there is no jump
C21_PriceFitCurve ==
    hFit # NULL =>
        \A p \in products :
            LET m == Midpoint(p)
            IN IF ~Known(p) THEN hFit = 50 * Centi
               ELSE /\ Between(m, 20, 60) => hFit = 100 * Centi
                    /\ Between(m, 10, 20) => hFit = 50 * Centi + 5 * (m - 10 * Centi)
                    /\ Between(m, 60, 80) =>
                           2 * hFit = 200 * Centi - 5 * (m - 60 * Centi)
                    /\ Between(m, 0, 10) => hFit = 5 * m
                    /\ Between(m, 80, 150) =>
                           LET d == 7 * hFit - (350 * Centi - 5 * (m - 80 * Centi))
                           IN -4 < d /\ d < 4
                    /\ m > 150 * Centi => hFit = 0

\* a midpoint of exactly 80 from two different bounds
C21_Witness ==
    /\ hFit = 50 * Centi
    /\ \E p \in products :
         /\ p.price_low # NULL /\ p.price_high # NULL
         /\ p.price_low < p.price_high
         /\ Midpoint(p) = 80 * Centi

----------------------------------------------------------------------------
(* Properties of extract_and_filter                                        *)

\* the call to the model raised, or its answer was not JSON, not an array,
\* or an array of the wrong length
BatchFailed(e) ==
    \/ e.resp.kind \in {"raise", "not_json", "not_array"}
    \/ e.resp.kind = "list" /\ Len(e.resp.items) # Len(e.batch)

\* C22: a batch whose call raised or whose answer was not JSON, not an array
\* or of the wrong length passes through unchanged: the signals kept for it
\* are its signals with their original names, and all are in the output
C22_BatchPassesThroughOnError ==
    \A k \in DOMAIN ex.log :
        BatchFailed(ex.log[k]) =>
            /\ ex.log[k].kept = ex.log[k].batch
            /\ ex.pc = "done" =>
                   \A i \in DOMAIN ex.log[k].batch :
                       \E o \in DOMAIN ex.out : ex.out[o] = ex.log[k].batch[i]

----------------------------------------------------------------------------
(* Further properties of the store                                         *)

\* the last call of the resolver returned a product
Returned == last.how \in {"exact", "alias", "fuzzy", "create"}

\* C24: after the resolver has returned product P for a raw name, the alias
\* rows its session sees hold an alias of P named by the normalised name,
\* whichever of the four ways the name was resolved
C24_AliasAfterResolve ==
    Returned =>
        \E a \in Range(VisibleAliases(last.job)) :
            /\ a.product_id = last.pid
            /\ a.alias_name = normalize_product_name(last.raw)

\* a raw spelling that is not its own normalised form matched a canonical
\* name exactly
C24_Witness ==
    /\ last.how = "exact"
    /\ last.raw # normalize_product_name(last.raw)
    /\ \E a \in Range(VisibleAliases(last.job)) :
         /\ a.product_id = last.pid
         /\ a.alias_name = normalize_product_name(last.raw)

\* the names of product p that the fuzzy step compares with: its canonical
\* name and its aliases
NamesOf(p, as) ==
    {p.canonical_name} \cup {a.alias_name : a \in Range(AliasesOf(as, p.id))}

\* the greatest similarity of a normalised name with a name of product p
Similarity(normalized, p, as) ==
    MaxOf({token_sort_ratio(normalized, n) : n \in NamesOf(p, as)})

\* C25: the product a fuzzy step selects attains the greatest similarity over
\* the canonical names and aliases that exist when it runs, and no product
\* before it in store order attains it too
C25_Step ==
    \A j \in Jobs :
        (sess[j].pc = "fuzzy" /\ sess'[j].pc = "loop" /\ last'.how = "fuzzy") =>
            LET normalized == Normalized(j)
                ps == VisibleProducts(j)
                as == VisibleAliases(j)
                top == MaxOf({Similarity(normalized, p, as) : p \in ps})
            IN \E p \in ps :
                   /\ p.id = last'.pid
                   /\ Similarity(normalized, p, as) = top
                   /\ \A q \in ps :
                        q.id < p.id => Similarity(normalized, q, as) < top
C25_FuzzyPicksFirstMaximum == [][C25_Step]_vars

\* a fuzzy step has selected a product while a product later in store order
\* has a name just as similar as the best name of the selected one
C25_Witness ==
    /\ last.how = "fuzzy"
    /\ LET normalized == normalize_product_name(last.raw)
           as == VisibleAliases(last.job)
           names(p) == NamesOf(p, as) \ {normalized}
           best(p) == MaxOf({token_sort_ratio(normalized, n) : n \in names(p)})
       IN \E p, q \in VisibleProducts(last.job) :
              /\ p.id = last.pid
              /\ q.id > p.id
              /\ best(p) = best(q)
              /\ best(p) >= MATCH_THRESHOLD

\* C23: once the source_url of a product is set, no step of any job changes
\* it
C23_Step ==
    \A p \in products :
        p.source_url # NoUrl =>
            \A q \in products' : q.id = p.id => q.source_url = p.source_url
C23_SourceUrlWriteOnce == [][C23_Step]_vars

\* every name of the store with the product that owns it: canonical names
\* and aliases, committed or flushed by an open session
AllNames ==
    {[pid |-> p.id, name |-> p.canonical_name] : p \in AllProducts}
    \cup {[pid |-> a.product_id, name |-> a.alias_name] : a \in Range(aliases)}
    \cup UNION {{[pid |-> a.product_id, name |-> a.alias_name] :
                    a \in Range(sess[j].pendA)} : j \in DOMAIN sess}

\* call c returned a product
ReturnedBy(c) == c.how \in {"exact", "alias", "fuzzy", "create"}

\* C29: with runs one after the other, a call for a name whose normalised
\* form was resolved before returns the product returned then, whatever was
\* resolved in between; and no name is canonical name or alias of two
\* products
C29_StableResolution ==
    /\ \A i \in DOMAIN log :
         ( /\ ReturnedBy(log[i])
           /\ ReturnedBy(last)
           /\ normalize_product_name(last.raw) = normalize_product_name(log[i].raw) )
         => last.pid = log[i].pid
    /\ \A x, y \in AllNames : x.name = y.name => x.pid = y.pid

\* a name was matched fuzzily, a different name close to it was resolved
\* next, and the third call found the first name again
C29_Witness ==
    /\ Len(log) = 2
    /\ log[1].how = "fuzzy"
    /\ ReturnedBy(log[2])
    /\ normalize_product_name(log[2].raw) # normalize_product_name(log[1].raw)
    /\ token_sort_ratio(normalize_product_name(log[2].raw),
                        normalize_product_name(log[1].raw)) >= MATCH_THRESHOLD
    /\ last.how = "alias"
    /\ last.raw = log[1].raw
    /\ last.pid = log[1].pid

\* the RawSignal row store_signals committed for signal i of the batch of
\* job j: the job's rows are its last ones of that source
RowOf(j, i) ==
    LET rows == SelectSeq(rawSignals, LAMBDA r : r.source = j)
    IN rows[Len(rows) - Len(sess[j].batch) + i]

\* C30: when _record_price_history of a run commits, the product each stored
\* signal with a price p was linked to has price_low <= p <= price_high
C30_Step ==
    \A j \in DOMAIN sess :
        (sess[j].pc = "price" /\ sess'[j].pc = "urls") =>
            \A i \in DOMAIN sess[j].batch :
                LET p == sess[j].batch[i].meta.price
                IN p # NULL =>
                       \E q \in products' :
                           /\ q.id = RowOf(j, i).product_id
                           /\ q.price_low # NULL
                           /\ q.price_low <= p
                           /\ p <= q.price_high
C30_PriceWithinBounds == [][C30_Step]_vars

----------------------------------------------------------------------------
(* Properties of _compute_ds_score                                         *)

\* the platform-count term is between 0 and 100 points
PlatformTermInRange ==
    0 <= hDs.platform_score /\ hDs.platform_score <= 7 * 100 * Centi

\* the composite is between 0 and 100 points
CompositeInRange == 0 <= hDs.ds /\ hDs.ds <= 100 * DsUnit

\* C27: the platform-count term of the suitability composite is at most 100
\* for every snapshot score_product records, and the composite of the
\* snapshot lies between 0 and 100
C27_SuitabilityInRange ==
    hDs.pc = "done" => (PlatformTermInRange /\ CompositeInRange)

----------------------------------------------------------------------------
(* Properties of run_full_pipeline                                         *)

\* the call has ended, with the dict or with the exception of run_scoring
Ended == pl.pc \in {"returned", "raised"}

\* C28: whichever collection steps raise, all nine are called, in order; a
\* step that raised is reported with count 0; the scoring step is called
\* once, and only when all nine collection steps have returned or raised
C28_PipelineIsolatesFailures ==
    /\ Ended => pl.begun = Steps
    /\ pl.pc = "returned" => \A i \in pl.failed : pl.result[i] = 0
    /\ pl.scorings <= 1
    /\ Ended => pl.scorings = 1
    /\ pl.scorings = 1 => pl.begunAtScoring = Steps

\* the first and the last collection step raised, one in between stored a
\* signal, and the call returned
C28_Witness ==
    /\ pl.pc = "returned"
    /\ pl.failed = {1, Len(Steps)}
    /\ pl.begun = Steps
    /\ pl.result[2] > 0
    /\ pl.scorings = 1

====
